---------------------------- MODULE Spec2Model ----------------------------
(***************************************************************************)
(* The projection engine of the financial planner                          *)
(* (src/model.py: BusinessEvent, calculate_monthly_payment,                *)
(* FinancialModel.calculate_projection).                                   *)
(*                                                                         *)
(* Numbers.  The program computes in binary floating point.  The model     *)
(* computes in exact integer arithmetic: money is a whole number of        *)
(* dollars, a rate is a whole number of percent (as in the program), and   *)
(* the two fractional inputs of the program are carried as hundredths:     *)
(*   seasonality[i]   the multiplier times 100   (1.5  -> 150)             *)
(*   base_cogs_pct    the fraction times 100     (0.70 -> 70)              *)
(* Every division of the program is performed by Div at the place the      *)
(* program performs it.  The inputs drawn by Init are chosen such that      *)
(* every one of these divisions is exact, so that no rounding of the       *)
(* model stands in for a rounding of the program.  Floating-point          *)
(* rounding itself is not modelled.                                        *)
(***************************************************************************)
EXTENDS Integers, Sequences, FiniteSets, TLC

\* The loop of calculate_projection runs for months = MaxMonths.
MaxMonths == 14
\* An event list holds at most MaxEvents events.
MaxEvents == 2
\* Under SpecCalendar the loop runs for months = CalendarMonths: into the
\* third year of ownership.
CalendarMonths == 26

\* src/model.py:12  DAYS_IN_MONTH = 30.5, carried as twice its value.
DAYS_IN_MONTH_x2 == 61

VARIABLES
    self,                   \* the FinancialModel instance (inputs and events)
    start_date,             \* argument start_date: [year, month]
    months,                 \* argument months
    pc,                     \* "ready" | "loop" | "returned" | "raised";
                            \* of the event manager: "editing" | "raised"
    m,                      \* the loop variable of line 95
    projection,             \* the list of rows built by the running call
    monthly_debt_service,   \* line 83
    initial_capex_cost,     \* line 88
    cumulative_cash_owner,  \* line 90
    cumulative_cash_store,  \* line 91
    cumulative_cash_prop,   \* line 92
    runs,                   \* the calls that have returned: <<[events, df]>>
    session_state,          \* st.session_state of the event manager:
                            \* events_data and edit_event_idx
    selected                \* history: the name of the event the user chose
                            \* to edit, None when no edit is under way

vars == <<self, start_date, months, pc, m, projection, monthly_debt_service,
          initial_capex_cost, cumulative_cash_owner, cumulative_cash_store,
          cumulative_cash_prop, runs, session_state, selected>>

--------------------------------------------------------------------------
(* Arithmetic helpers *)

\* x / y of the program, at the places where the inputs make it exact.
Div(x, y) == x \div y

RECURSIVE Pow(_, _)
\* b ** n for a natural n.
Pow(b, n) == IF n = 0 THEN 1 ELSE b * Pow(b, n - 1)

Max(a, b) == IF a >= b THEN a ELSE b

\* Python's None where the program holds None or an index.
None == -1

\* st.session_state before the event manager has been used.
NoSession == [ events_data |-> <<>>, edit_event_idx |-> None ]

--------------------------------------------------------------------------
(* Strings.  The program tests value_type with Python's `in` (substring).  *)
(* TLC cannot look inside a string, so the substring relation is tabulated *)
(* for the value_type strings the model uses.                              *)

\* sub in s
Contains(sub, s) ==
    CASE sub = "Percent" -> s \in {"Percentage (%)", "Percent of Labor",
                                   "Percent of COGS"}
      [] sub = "%" -> s \in {"Percentage (%)", "% of Revenue", "% of COGS",
                             "% of Ops", "% of NOI",
                             "% of Previous Quarter NOI",
                             "% of Previous Quarter",
                             "% of COGS and Revenue"}
      [] sub = "Revenue" -> s \in {"% of Revenue", "% of COGS and Revenue"}
      [] sub = "COGS" -> s \in {"% of COGS", "Percent of COGS",
                                "% of COGS and Revenue"}
      [] sub = "Ops" -> s \in {"% of Ops"}
      [] sub = "NOI" -> s \in {"% of NOI", "% of Previous Quarter NOI"}
      [] sub = "Previous Quarter" -> s \in {"% of Previous Quarter NOI",
                                            "% of Previous Quarter"}
      [] OTHER -> FALSE

--------------------------------------------------------------------------
(* BusinessEvent (lines 14-26).  The field description is never read by    *)
(* the engine and is left out.                                             *)

BusinessEvent(name, start_month, end_month, frequency, impact_target, pct_basis, value_type, value, affected_entity, is_active) ==
    [ name |-> name, start_month |-> start_month, end_month |-> end_month,
      frequency |-> frequency, impact_target |-> impact_target,
      pct_basis |-> pct_basis, value_type |-> value_type, value |-> value,
      affected_entity |-> affected_entity, is_active |-> is_active ]

--------------------------------------------------------------------------
(* calculate_monthly_payment (lines 28-33).  The monthly rate            *)
(* r = annual_rate/100/12 = annual_rate/1200 is carried as the fraction    *)
(* rn/rd in lowest terms.  The level-payment formula                       *)
(*   P * r(1+r)^n / ((1+r)^n - 1)                                          *)
(* is, with numerator and denominator multiplied by rd^(n+1),              *)
(*   P * rn * (rd+rn)^n / (rd * ((rd+rn)^n - rd^n)).                       *)

RECURSIVE GCD(_, _)
\* The greatest common divisor of two naturals, a > 0.
GCD(a, b) == IF b = 0 THEN a ELSE GCD(b, a % b)

\* calculate_monthly_payment with the rate tested before the principal.
calculate_monthly_payment_RateFirst(principal, annual_rate, years) ==
    IF annual_rate <= 0 THEN Div(principal, years * 12)
    ELSE IF principal <= 0 THEN 0
    ELSE LET rn == annual_rate \div GCD(annual_rate, 1200)
             rd == 1200 \div GCD(annual_rate, 1200)
             n == years * 12
             g == Pow(rd + rn, n)
         IN  Div(principal * rn * g, rd * (g - Pow(rd, n)))

calculate_monthly_payment(principal, annual_rate, years) ==
    IF principal <= 0 THEN 0
    ELSE IF annual_rate <= 0 THEN Div(principal, years * 12)
    ELSE LET rn == annual_rate \div GCD(annual_rate, 1200)
             rd == 1200 \div GCD(annual_rate, 1200)
             n == years * 12
             g == Pow(rd + rn, n)
         IN  Div(principal * rn * g, rd * (g - Pow(rd, n)))

--------------------------------------------------------------------------
(* calculate_projection, the part of the loop body before the events       *)
(* (lines 96-155): the calendar, the growth factors and the base figures.  *)

\* (1 + rate / 100.0) ** project_year_idx, as numerator over 100 ** idx.
GrowthNum(rate, project_year_idx) == Pow(100 + rate, project_year_idx)

GrowthDen(project_year_idx) == Pow(100, project_year_idx)

\* CalQuarterIdx with periods of four months instead of three.
CalQuarterIdx_FourMonths(cal_month) == (cal_month - 1) \div 4

\* line 100: (cal_month - 1) // 3, the 0-3 index of the calendar quarter.
CalQuarterIdx(cal_month) == (cal_month - 1) \div 3

\* ProjectYearIdx counted from m instead of m - 1: steps at month 12.
ProjectYearIdx_FromMonth(mm) == mm \div 12

\* line 104: (m - 1) // 12
ProjectYearIdx(mm) == (mm - 1) \div 12

\* LaborSeasonality without the dampening: the revenue factor itself.
LaborSeasonality_Undamped(seasonality_factor) == seasonality_factor

\* line 141: 1 + (seasonality_factor - 1) * 0.5, in hundredths.
LaborSeasonality(seasonality_factor) == 100 + Div(seasonality_factor - 100, 2)

\* lines 96-155: the locals of one iteration when the event loop starts.
BaseFigures(mdl, sd, mm) ==
    LET k == (sd.month - 1) + (mm - 1)
        cal_year == sd.year + (k \div 12)
        cal_month == (k % 12) + 1
        cal_quarter_idx == CalQuarterIdx(cal_month)
        project_year_idx == ProjectYearIdx(mm)
        den == GrowthDen(project_year_idx)
        rev_num == GrowthNum(mdl.revenue_growth_rate, project_year_idx)
        exp_num == GrowthNum(mdl.expense_growth_rate, project_year_idx)
        wage_num == GrowthNum(mdl.wage_growth_rate, project_year_idx)
        rent_num == GrowthNum(mdl.rent_escalation_rate, project_year_idx)
        seasonality_factor == mdl.seasonality[cal_quarter_idx + 1]
        monthly_base_rev ==
            Div(Div(mdl.base_revenue * rev_num, den) * seasonality_factor, 100)
        cogs_base_amt ==
            Div(Div(Div(mdl.base_revenue * mdl.base_cogs_pct, 100) * rev_num, den)
                * seasonality_factor, 100)
        current_manager_wage == Div(mdl.manager_wage_hourly * wage_num, den)
        manager_hours_mo == Div(mdl.manager_weekly_hours * 52, 12)
        manager_mo_cost == current_manager_wage * manager_hours_mo
        current_hourly_wage == Div(mdl.hourly_wage * wage_num, den)
        total_required_hours ==
            Div(mdl.avg_staff * mdl.operating_hours * DAYS_IN_MONTH_x2, 2)
        required_hourly_staff_hours ==
            Max(0, total_required_hours - manager_hours_mo)
        staff_cost_mo == current_hourly_wage * required_hourly_staff_hours
        labor_seasonality == LaborSeasonality(seasonality_factor)
        ex_util == Div(mdl.utilities * exp_num, den)
        ex_ins == Div(mdl.insurance * exp_num, den)
        ex_maint == Div(mdl.maintenance * exp_num, den)
        ex_mktg == Div(mdl.marketing * exp_num, den)
        ex_prof == Div(mdl.professional_fees * exp_num, den)
    IN  [ cal_year |-> cal_year,
          cal_month |-> cal_month,
          cal_quarter_idx |-> cal_quarter_idx,
          project_year_idx |-> project_year_idx,
          rent_growth_num |-> rent_num,
          growth_den |-> den,
          monthly_base_rev |-> monthly_base_rev,
          cogs_base_amt |-> cogs_base_amt,
          store_labor |-> manager_mo_cost + Div(staff_cost_mo * labor_seasonality, 100),
          ex_util |-> ex_util, ex_ins |-> ex_ins, ex_maint |-> ex_maint,
          ex_mktg |-> ex_mktg, ex_prof |-> ex_prof,
          store_ops_expenses |-> ex_util + ex_ins + ex_maint + ex_mktg + ex_prof,
          store_rent_expense |-> Div(mdl.commercial_rent_income * rent_num, den) ]

--------------------------------------------------------------------------
(* The event loop (lines 157-262).                                         *)

\* lines 158-168: the accumulators before the first event.
NoImpacts ==
    [ event_rev_impact |-> 0, event_cogs_impact |-> 0, event_labor_impact |-> 0,
      event_ops_impact |-> 0, event_rent_impact |-> 0, event_capex_store |-> 0,
      event_capex_prop |-> 0, event_prop_ops_impact |-> 0,
      monthly_event_breakdown |-> <<>> ]

\* Applies with the end of the window forgotten (mm <= e.end_month dropped).
Applies_NoEnd(e, mm) ==
    /\ e.is_active
    /\ e.start_month <= mm
    /\ LET month_delta == mm - e.start_month
       IN  CASE e.frequency = "One-time" -> mm = e.start_month
             [] e.frequency = "Monthly" -> TRUE
             [] e.frequency = "Quarterly" -> month_delta % 3 = 0
             [] e.frequency = "Annually" -> month_delta % 12 = 0
             [] OTHER -> FALSE

\* Applies with the active check forgotten.
Applies_IgnoresActive(e, mm) ==
    /\ e.start_month <= mm /\ mm <= e.end_month
    /\ LET month_delta == mm - e.start_month
       IN  CASE e.frequency = "One-time" -> mm = e.start_month
             [] e.frequency = "Monthly" -> TRUE
             [] e.frequency = "Quarterly" -> month_delta % 3 = 0
             [] e.frequency = "Annually" -> month_delta % 12 = 0
             [] OTHER -> FALSE

\* Applies with an unrecognised frequency taken as every month.
Applies_UnknownIsMonthly(e, mm) ==
    /\ e.is_active
    /\ e.start_month <= mm /\ mm <= e.end_month
    /\ LET month_delta == mm - e.start_month
       IN  CASE e.frequency = "One-time" -> mm = e.start_month
             [] e.frequency = "Quarterly" -> month_delta % 3 = 0
             [] e.frequency = "Annually" -> month_delta % 12 = 0
             [] OTHER -> TRUE

\* lines 175-195: the active check, the time window and the frequency.
Applies(e, mm) ==
    /\ e.is_active
    /\ e.start_month <= mm /\ mm <= e.end_month
    /\ LET month_delta == mm - e.start_month
       IN  CASE e.frequency = "One-time" -> mm = e.start_month
             [] e.frequency = "Monthly" -> TRUE
             [] e.frequency = "Quarterly" -> month_delta % 3 = 0
             [] e.frequency = "Annually" -> month_delta % 12 = 0
             [] OTHER -> FALSE

\* BasisToUse with the legacy strings tried in another order: COGS first.
BasisToUse_CogsFirst(e) ==
    IF Contains("COGS", e.value_type) THEN "COGS"
    ELSE IF Contains("Revenue", e.value_type) THEN "Revenue"
    ELSE IF Contains("Ops", e.value_type) THEN "Ops (Fixed)"
    ELSE IF Contains("NOI", e.value_type) THEN "NOI"
    ELSE IF Contains("Previous Quarter", e.value_type) THEN "NOI"
    ELSE e.pct_basis

\* lines 206-213: the basis named by pct_basis, overridden by a legacy
\* value_type string.
BasisToUse(e) ==
    IF Contains("Revenue", e.value_type) THEN "Revenue"
    ELSE IF Contains("COGS", e.value_type) THEN "COGS"
    ELSE IF Contains("Ops", e.value_type) THEN "Ops (Fixed)"
    ELSE IF Contains("NOI", e.value_type) THEN "NOI"
    ELSE IF Contains("Previous Quarter", e.value_type) THEN "NOI"
    ELSE e.pct_basis

\* Window with the frequency forgotten: always the last month.
Window_One(e) == 1

\* lines 229-231: the lookback window of an NOI basis.
Window(e) ==
    IF e.frequency = "Quarterly" THEN 3
    ELSE IF e.frequency = "Annually" THEN 12
    ELSE 1

\* lines 235-237: the rows read by the lookback of month mm, as months
\* (row i of the model is projection[i - 1] of the program): for i in
\* range(1, window + 1), the row projection[mm - i - 1] if mm - i - 1 >= 0.
LookbackRows(mm, window) ==
    { mm - i : i \in { j \in 1..window : (mm - j - 1) >= 0 } }

RECURSIVE NoiSum(_, _)
\* lines 234-238: noi_sum, the sum of Store_NOI_Pre over the rows read.
NoiSum(hist, rows) ==
    IF rows = {} THEN 0
    ELSE LET r == CHOOSE x \in rows : \A y \in rows : x >= y
         IN  hist[r].Store_NOI_Pre + NoiSum(hist, rows \ {r})

\* NoiBasis without the floor at 0 (a negative sum claws back).
NoiBasis_NoFloor(e, mm, hist) ==
    IF mm > Window(e) THEN NoiSum(hist, LookbackRows(mm, Window(e))) ELSE 0

\* lines 227-239: the NOI basis.
NoiBasis(e, mm, hist) ==
    IF mm > Window(e)
    THEN LET noi_sum == NoiSum(hist, LookbackRows(mm, Window(e)))
         IN  IF noi_sum > 0 THEN noi_sum ELSE 0
    ELSE 0

\* ModelBaseVal with the Revenue basis read after the events before e have
\* been added to it (the running total instead of the base).
ModelBaseVal_RunningRevenue(e, mm, base, acc, hist) ==
    LET basis_to_use == BasisToUse(e)
    IN  CASE basis_to_use = "Revenue" -> base.monthly_base_rev + acc.event_rev_impact
          [] basis_to_use = "COGS" -> base.cogs_base_amt
          [] basis_to_use = "Labor" -> base.store_labor
          [] basis_to_use = "Ops (Fixed)" -> base.store_ops_expenses
          [] basis_to_use = "Rent" -> base.store_rent_expense
          [] basis_to_use = "Capex" -> 0
          [] basis_to_use = "NOI" -> NoiBasis(e, mm, hist)
          [] OTHER -> 0

\* ModelBaseVal with the Labor basis read after store_labor += impact.
ModelBaseVal_PostEventLabor(e, mm, base, acc, hist) ==
    LET basis_to_use == BasisToUse(e)
    IN  CASE basis_to_use = "Revenue" -> base.monthly_base_rev
          [] basis_to_use = "COGS" -> base.cogs_base_amt
          [] basis_to_use = "Labor" -> base.store_labor + acc.event_labor_impact
          [] basis_to_use = "Ops (Fixed)" -> base.store_ops_expenses
          [] basis_to_use = "Rent" -> base.store_rent_expense
          [] basis_to_use = "Capex" -> 0
          [] basis_to_use = "NOI" -> NoiBasis(e, mm, hist)
          [] OTHER -> 0

\* lines 215-239: model_base_val.  base holds the base figures of the month,
\* acc the accumulators as the events before e left them.
ModelBaseVal(e, mm, base, acc, hist) ==
    LET basis_to_use == BasisToUse(e)
    IN  CASE basis_to_use = "Revenue" -> base.monthly_base_rev
          [] basis_to_use = "COGS" -> base.cogs_base_amt
          [] basis_to_use = "Labor" -> base.store_labor
          [] basis_to_use = "Ops (Fixed)" -> base.store_ops_expenses
          [] basis_to_use = "Rent" -> base.store_rent_expense
          [] basis_to_use = "Capex" -> 0
          [] basis_to_use = "NOI" -> NoiBasis(e, mm, hist)
          [] OTHER -> 0

\* lines 197-241: val of an event that applies.
EventValue(e, mm, base, acc, hist) ==
    IF e.value_type = "Fixed Amount ($)" THEN e.value
    ELSE IF Contains("Percent", e.value_type) \/ Contains("%", e.value_type)
         THEN Div(ModelBaseVal(e, mm, base, acc, hist) * e.value, 100)
    ELSE 0

\* lines 172-173: the column of the event, 0 when it is new.
InitColumn(breakdown, name) ==
    IF name \in DOMAIN breakdown THEN breakdown
    ELSE [n \in (DOMAIN breakdown) \cup {name} |->
             IF n = name THEN 0 ELSE breakdown[n]]

\* ApplyToTarget with the entity of an Ops event ignored: always the store.
ApplyToTarget_OpsToStore(acc, e, val) ==
    CASE e.impact_target = "Revenue" ->
            [acc EXCEPT !.event_rev_impact = @ + val]
      [] e.impact_target = "COGS" ->
            [acc EXCEPT !.event_cogs_impact = @ + val]
      [] e.impact_target = "Labor" ->
            [acc EXCEPT !.event_labor_impact = @ + val]
      [] e.impact_target = "Ops (Fixed)" ->
            [acc EXCEPT !.event_ops_impact = @ + val]
      [] e.impact_target = "Rent" ->
            [acc EXCEPT !.event_rent_impact = @ + val]
      [] e.impact_target = "Capex" ->
            IF e.affected_entity = "Property"
            THEN [acc EXCEPT !.event_capex_prop = @ + val]
            ELSE [acc EXCEPT !.event_capex_store = @ + val]
      [] OTHER -> acc

\* ApplyToTarget with a property Capex event landing in both accumulators.
ApplyToTarget_CapexInBoth(acc, e, val) ==
    CASE e.impact_target = "Revenue" ->
            [acc EXCEPT !.event_rev_impact = @ + val]
      [] e.impact_target = "COGS" ->
            [acc EXCEPT !.event_cogs_impact = @ + val]
      [] e.impact_target = "Labor" ->
            [acc EXCEPT !.event_labor_impact = @ + val]
      [] e.impact_target = "Ops (Fixed)" ->
            IF e.affected_entity = "Property"
            THEN [acc EXCEPT !.event_prop_ops_impact = @ + val]
            ELSE [acc EXCEPT !.event_ops_impact = @ + val]
      [] e.impact_target = "Rent" ->
            [acc EXCEPT !.event_rent_impact = @ + val]
      [] e.impact_target = "Capex" ->
            IF e.affected_entity = "Property"
            THEN [acc EXCEPT !.event_capex_prop = @ + val,
                             !.event_capex_store = @ + val]
            ELSE [acc EXCEPT !.event_capex_store = @ + val]
      [] OTHER -> acc

\* ApplyToTarget with a Rent event of the Property booked as a property
\* expense instead of flowing through the store's rent line.
ApplyToTarget_RentByEntity(acc, e, val) ==
    CASE e.impact_target = "Revenue" ->
            [acc EXCEPT !.event_rev_impact = @ + val]
      [] e.impact_target = "COGS" ->
            [acc EXCEPT !.event_cogs_impact = @ + val]
      [] e.impact_target = "Labor" ->
            [acc EXCEPT !.event_labor_impact = @ + val]
      [] e.impact_target = "Ops (Fixed)" ->
            IF e.affected_entity = "Property"
            THEN [acc EXCEPT !.event_prop_ops_impact = @ + val]
            ELSE [acc EXCEPT !.event_ops_impact = @ + val]
      [] e.impact_target = "Rent" ->
            IF e.affected_entity = "Property"
            THEN [acc EXCEPT !.event_prop_ops_impact = @ + val]
            ELSE [acc EXCEPT !.event_rent_impact = @ + val]
      [] e.impact_target = "Capex" ->
            IF e.affected_entity = "Property"
            THEN [acc EXCEPT !.event_capex_prop = @ + val]
            ELSE [acc EXCEPT !.event_capex_store = @ + val]
      [] OTHER -> acc

\* lines 246-262: val added to the accumulator of the target.
ApplyToTarget(acc, e, val) ==
    CASE e.impact_target = "Revenue" ->
            [acc EXCEPT !.event_rev_impact = @ + val]
      [] e.impact_target = "COGS" ->
            [acc EXCEPT !.event_cogs_impact = @ + val]
      [] e.impact_target = "Labor" ->
            [acc EXCEPT !.event_labor_impact = @ + val]
      [] e.impact_target = "Ops (Fixed)" ->
            IF e.affected_entity = "Property"
            THEN [acc EXCEPT !.event_prop_ops_impact = @ + val]
            ELSE [acc EXCEPT !.event_ops_impact = @ + val]
      [] e.impact_target = "Rent" ->
            [acc EXCEPT !.event_rent_impact = @ + val]
      [] e.impact_target = "Capex" ->
            IF e.affected_entity = "Property"
            THEN [acc EXCEPT !.event_capex_prop = @ + val]
            ELSE [acc EXCEPT !.event_capex_store = @ + val]
      [] OTHER -> acc

\* EventStep with the column made only when the event applies.
EventStep_ColumnWhenApplies(acc, e, mm, base, hist) ==
    IF ~Applies(e, mm) THEN acc
    ELSE LET acc0 == [acc EXCEPT !.monthly_event_breakdown = InitColumn(@, e.name)]
             val == EventValue(e, mm, base, acc0, hist)
             acc1 == [acc0 EXCEPT !.monthly_event_breakdown[e.name] = @ + val]
         IN  ApplyToTarget(acc1, e, val)

\* lines 170-262: one iteration of `for e in self.events`.
EventStep(acc, e, mm, base, hist) ==
    LET acc0 == [acc EXCEPT !.monthly_event_breakdown = InitColumn(@, e.name)]
    IN  IF ~Applies(e, mm) THEN acc0
        ELSE LET val == EventValue(e, mm, base, acc0, hist)
                 acc1 == [acc0 EXCEPT !.monthly_event_breakdown[e.name] = @ + val]
             IN  ApplyToTarget(acc1, e, val)

RECURSIVE EventLoop(_, _, _, _, _)
\* lines 170-262: the accumulators after the first i events.
EventLoop(events, i, mm, base, hist) ==
    IF i = 0 THEN NoImpacts
    ELSE EventStep(EventLoop(events, i - 1, mm, base, hist), events[i], mm, base, hist)

--------------------------------------------------------------------------
(* The rest of the loop body (lines 264-353): the totals, the nets, the    *)
(* running balances and the row.                                           *)

\* StoreNoiPreBonus with the rent expense left out of the outflow.
StoreNoiPreBonus_RentLeftOut(revenue, cogs, labor, ops, rent) ==
    revenue - (cogs + labor + ops)

\* lines 278-279: store_noi_pre_bonus, revenue minus the pre-bonus outflow.
StoreNoiPreBonus(revenue, cogs, labor, ops, rent) ==
    revenue - (cogs + labor + ops + rent)

\* PropNetCash with the debt service added instead of subtracted.
PropNetCash_DebtAdded(income, debt, ops, capex) == income + debt - ops - capex

\* line 301: prop_net_cash
PropNetCash(income, debt, ops, capex) == income - debt - ops - capex

\* lines 264-348: row_data of month mm from the base figures and the
\* accumulated impacts.  cum holds the three running balances as the month
\* before left them.
RowOf(mdl, mm, base, acc, debt, capex0, cum) ==
    LET store_total_revenue == base.monthly_base_rev + acc.event_rev_impact
        store_cogs == base.cogs_base_amt + acc.event_cogs_impact
        store_labor == base.store_labor + acc.event_labor_impact
        store_ops_expenses == base.store_ops_expenses + acc.event_ops_impact
        store_rent_expense == base.store_rent_expense + acc.event_rent_impact
        prop_ops_expenses == acc.event_prop_ops_impact
        store_noi_pre_bonus ==
            StoreNoiPreBonus(store_total_revenue, store_cogs, store_labor,
                             store_ops_expenses, store_rent_expense)
        bonus_payout == 0
        store_net_cash == store_noi_pre_bonus - bonus_payout - acc.event_capex_store
        prop_comm_rent == store_rent_expense
        prop_res_rent ==
            Div(mdl.residential_rent_income * base.rent_growth_num, base.growth_den)
        prop_total_income == prop_comm_rent + prop_res_rent
        prop_debt == debt
        prop_net_cash ==
            PropNetCash(prop_total_income, prop_debt, prop_ops_expenses,
                        acc.event_capex_prop)
        consolidated_cash == store_net_cash + prop_net_cash
        total_event_expense_impact ==
            acc.event_cogs_impact + acc.event_labor_impact + acc.event_ops_impact
            + acc.event_rent_impact + acc.event_prop_ops_impact
        total_event_capex == acc.event_capex_store + acc.event_capex_prop
        net_event_impact ==
            acc.event_rev_impact - total_event_expense_impact - total_event_capex
    IN  [ Year |-> base.cal_year,
          Month |-> base.cal_month,
          Quarter |-> base.cal_quarter_idx + 1,
          Project_Month |-> mm,
          Project_Year |-> base.project_year_idx + 1,
          Store_Revenue |-> store_total_revenue,
          Store_COGS |-> -store_cogs,
          Store_Labor |-> -store_labor,
          Store_Bonus |-> -bonus_payout,
          Store_Ops_Ex |-> -store_ops_expenses,
          Ex_Util |-> -base.ex_util,
          Ex_Ins |-> -base.ex_ins,
          Ex_Maint |-> -base.ex_maint,
          Ex_Mktg |-> -base.ex_mktg,
          Ex_Prof |-> -base.ex_prof,
          Store_Rent_Ex |-> -store_rent_expense,
          Prop_Debt |-> -prop_debt,
          Store_Net |-> store_net_cash,
          Prop_Net |-> prop_net_cash,
          Store_Cum |-> cum.store + store_net_cash,
          Prop_Cum |-> cum.prop + prop_net_cash,
          Owner_Cum |-> cum.owner + consolidated_cash,
          Owner_Cash_Flow |-> consolidated_cash,
          Capex |-> -(IF mm = 1 THEN capex0 ELSE total_event_capex),
          Net_Event_Impact |-> net_event_impact,
          Store_NOI_Pre |-> store_noi_pre_bonus,
          Event |-> acc.monthly_event_breakdown ]

\* lines 96-348: one iteration of the loop, up to the row.
RowData(mdl, sd, mm, hist, debt, capex0, cum) ==
    LET base == BaseFigures(mdl, sd, mm)
    IN  RowOf(mdl, mm, base, EventLoop(mdl.events, Len(mdl.events), mm, base, hist),
              debt, capex0, cum)

--------------------------------------------------------------------------
(* Inputs.                                                                 *)

\* A profitable store: flat seasonality, January start, growth from year 2.
ConfigFlat ==
    [ seasonality |-> <<100, 100, 100, 100>>,
      revenue_growth_rate |-> 10, expense_growth_rate |-> 5,
      wage_growth_rate |-> 10, rent_escalation_rate |-> 2,
      base_revenue |-> 12000, base_cogs_pct |-> 50, operating_hours |-> 10,
      manager_weekly_hours |-> 12, manager_wage_hourly |-> 20,
      hourly_wage |-> 10, avg_staff |-> 1,
      utilities |-> 100, insurance |-> 100, maintenance |-> 100,
      marketing |-> 100, professional_fees |-> 100,
      loan_amount |-> 120000, interest_rate |-> 0, amortization_years |-> 10,
      initial_capex |-> 5000,
      commercial_rent_income |-> 1000, residential_rent_income |-> 500 ]

\* A seasonal store that loses money in its weak quarter.
ConfigSeasonal ==
    [ ConfigFlat EXCEPT !.seasonality = <<50, 100, 150, 100>>,
                        !.base_revenue = 20000,
                        !.operating_hours = 8,
                        !.avg_staff = 2,
                        !.loan_amount = 0,
                        !.initial_capex = 0 ]

Configs == {ConfigFlat, ConfigSeasonal}

StartDates == { [year |-> 2024, month |-> 1] }

\* The events the event lists are drawn from.
EventCatalogue ==
    << BusinessEvent("Promo", 2, 3, "Monthly", "Revenue", "Revenue", "Percentage (%)", 5, "Store", TRUE),
       BusinessEvent("Royalty", 1, 120, "Monthly", "Ops (Fixed)", "Revenue", "Percentage (%)", 5, "Store", TRUE),
       BusinessEvent("RentHike", 2, 120, "Monthly", "Rent", "Revenue", "Fixed Amount ($)", 500, "Store", TRUE),
       BusinessEvent("BonusQ", 4, 120, "Quarterly", "Labor", "NOI", "Percentage (%)", 100, "Store", TRUE),
       BusinessEvent("BonusM", 1, 120, "Monthly", "Labor", "NOI", "Percentage (%)", 100, "Store", TRUE),
       BusinessEvent("BonusA", 2, 120, "Annually", "Labor", "NOI", "Percentage (%)", 100, "Store", TRUE),
       BusinessEvent("Roof", 2, 120, "One-time", "Ops (Fixed)", "Revenue", "Fixed Amount ($)", 300, "Property", TRUE),
       BusinessEvent("Supplies", 1, 120, "Quarterly", "Ops (Fixed)", "Revenue", "Fixed Amount ($)", 200, "Store", TRUE),
       BusinessEvent("Fitout", 1, 120, "One-time", "Capex", "Revenue", "Fixed Amount ($)", 1000, "Store", TRUE),
       BusinessEvent("Boiler", 1, 120, "Annually", "Capex", "Revenue", "Fixed Amount ($)", 2000, "Property", TRUE),
       BusinessEvent("Paused", 1, 120, "Monthly", "Revenue", "Revenue", "Fixed Amount ($)", 1000, "Store", FALSE),
       BusinessEvent("PausedBonus", 1, 120, "Monthly", "Capex", "NOI", "Percentage (%)", 100, "Property", FALSE),
       BusinessEvent("Shrink", 1, 120, "Monthly", "COGS", "COGS", "Percentage (%)", 10, "Store", TRUE),
       BusinessEvent("Overtime", 5, 6, "Monthly", "Labor", "Labor", "Percentage (%)", 100, "Store", TRUE),
       BusinessEvent("Fees", 1, 120, "Quarterly", "Ops (Fixed)", "Ops (Fixed)", "Percentage (%)", 20, "Both", TRUE),
       BusinessEvent("Escalator", 1, 120, "Annually", "Rent", "Rent", "Percentage (%)", 10, "Store", TRUE),
       BusinessEvent("Rebate", 1, 120, "Monthly", "Revenue", "Capex", "Percentage (%)", 50, "Store", TRUE),
       BusinessEvent("Sublease", 3, 120, "Monthly", "Rent", "Revenue", "Fixed Amount ($)", 250, "Property", TRUE),
       BusinessEvent("Weekly", 1, 120, "Weekly", "Revenue", "Revenue", "Fixed Amount ($)", 700, "Store", TRUE),
       BusinessEvent("FlatFee", 1, 120, "Monthly", "Ops (Fixed)", "Revenue", "Flat Fee", 700, "Store", TRUE),
       BusinessEvent("Taxes", 1, 120, "Monthly", "Taxes", "Revenue", "Fixed Amount ($)", 700, "Property", TRUE) >>

RECURSIVE Pick(_, _)
\* The events of catalogue at the indices S, in the order of the catalogue.
Pick(catalogue, S) ==
    IF S = {} THEN <<>>
    ELSE LET i == CHOOSE x \in S : \A y \in S : x <= y
         IN  <<catalogue[i]>> \o Pick(catalogue, S \ {i})

\* The event lists of at most MaxEvents events of the catalogue.
EventLists ==
    { Pick(EventCatalogue, S) :
        S \in { T \in SUBSET (1..Len(EventCatalogue)) : Cardinality(T) <= MaxEvents } }

\* self with its field events set (the dataclass constructor, lines 35-74).
FinancialModel(config, events) ==
    [ k \in (DOMAIN config) \cup {"events"} |->
        IF k = "events" THEN events ELSE config[k] ]

\* events without its i-th element.
RemoveAt(events, i) ==
    [ j \in 1..(Len(events) - 1) |-> IF j < i THEN events[j] ELSE events[j + 1] ]

\* What the configuration layer can make of an event list between two runs:
\* leave it, reorder it, delete one event of it, or clear it.
EditedLists(events) ==
    { [ i \in 1..Len(events) |-> events[p[i]] ] : p \in Permutations(1..Len(events)) }
    \cup { RemoveAt(events, i) : i \in 1..Len(events) }
    \cup { <<>> }

--------------------------------------------------------------------------
(* The state machine.                                                      *)

\* lines 29-33: calculate_monthly_payment divides by zero
\* (ZeroDivisionError): by years * 12 at a rate of 0 or less, by
\* (1 + r)**n - 1 with n = years * 12 = 0 at a positive rate.
PaymentRaises(principal, annual_rate, years) ==
    /\ principal > 0
    /\ years * 12 = 0

\* line 113: self.seasonality[cal_quarter_idx] is out of range (IndexError).
SeasonalityRaises(mdl, sd, mm) ==
    LET cal_month == (((sd.month - 1) + (mm - 1)) % 12) + 1
    IN  CalQuarterIdx(cal_month) >= Len(mdl.seasonality)

\* AppendRow that also settles the row before: its Store_NOI_Pre is
\* overwritten with its Store_Net.
AppendRow_RewritesPrevious(rows, row) ==
    IF rows = <<>> THEN Append(rows, row)
    ELSE Append([rows EXCEPT ![Len(rows)].Store_NOI_Pre = rows[Len(rows)].Store_Net],
                row)

\* line 353: projection.append(row_data)
AppendRow(rows, row) == Append(rows, row)

Init ==
    /\ \E config \in Configs, events \in EventLists :
           self = FinancialModel(config, events)
    /\ start_date \in StartDates
    /\ months = MaxMonths
    /\ pc = "ready"
    /\ m = 0
    /\ projection = <<>>
    /\ monthly_debt_service = 0
    /\ initial_capex_cost = 0
    /\ cumulative_cash_owner = 0
    /\ cumulative_cash_store = 0
    /\ cumulative_cash_prop = 0
    /\ runs = <<>>
    /\ session_state = NoSession
    /\ selected = None

\* Call with the running balances kept on the instance: they start from
\* what the call before left in them.
Call_KeepsBalances ==
    /\ pc = "ready"
    /\ ~PaymentRaises(self.loan_amount, self.interest_rate, self.amortization_years)
    /\ pc' = "loop"
    /\ projection' = <<>>
    /\ monthly_debt_service' =
           calculate_monthly_payment(self.loan_amount, self.interest_rate,
                                     self.amortization_years)
    /\ initial_capex_cost' = self.initial_capex
    /\ cumulative_cash_owner' = cumulative_cash_owner - self.initial_capex
    /\ cumulative_cash_store' = cumulative_cash_store - self.initial_capex
    /\ cumulative_cash_prop' = cumulative_cash_prop
    /\ m' = 1
    /\ UNCHANGED <<session_state, selected, self, start_date, months, runs>>

\* Call with the initial cost left out of the running balances.
Call_ForgetsInitialCost ==
    /\ pc = "ready"
    /\ ~PaymentRaises(self.loan_amount, self.interest_rate, self.amortization_years)
    /\ pc' = "loop"
    /\ projection' = <<>>
    /\ monthly_debt_service' =
           calculate_monthly_payment(self.loan_amount, self.interest_rate,
                                     self.amortization_years)
    /\ initial_capex_cost' = self.initial_capex
    /\ cumulative_cash_owner' = 0
    /\ cumulative_cash_store' = 0
    /\ cumulative_cash_prop' = 0
    /\ m' = 1
    /\ UNCHANGED <<session_state, selected, self, start_date, months, runs>>

\* lines 80-95: calculate_projection is entered; the loop starts at m = 1.
Call ==
    /\ pc = "ready"
    /\ ~PaymentRaises(self.loan_amount, self.interest_rate, self.amortization_years)
    /\ pc' = "loop"
    /\ projection' = <<>>
    /\ monthly_debt_service' =
           calculate_monthly_payment(self.loan_amount, self.interest_rate,
                                     self.amortization_years)
    /\ initial_capex_cost' = self.initial_capex
    /\ cumulative_cash_owner' = -self.initial_capex
    /\ cumulative_cash_store' = -self.initial_capex
    /\ cumulative_cash_prop' = 0
    /\ m' = 1
    /\ UNCHANGED <<session_state, selected, self, start_date, months, runs>>

\* MonthStep with the payment computed anew in every month, from the
\* principal less the payments made so far.
MonthStep_RecomputesDebt ==
    /\ pc = "loop"
    /\ m <= months
    /\ ~SeasonalityRaises(self, start_date, m)
    /\ LET debt == calculate_monthly_payment(
                       self.loan_amount - (m - 1) * monthly_debt_service,
                       self.interest_rate, self.amortization_years)
           row == RowData(self, start_date, m, projection, debt,
                          initial_capex_cost,
                          [ owner |-> cumulative_cash_owner,
                            store |-> cumulative_cash_store,
                            prop |-> cumulative_cash_prop ])
       IN  /\ cumulative_cash_store' = row.Store_Cum
           /\ cumulative_cash_prop' = row.Prop_Cum
           /\ cumulative_cash_owner' = row.Owner_Cum
           /\ projection' = AppendRow(projection, row)
    /\ m' = m + 1
    /\ UNCHANGED <<session_state, selected, self, start_date, months, pc, monthly_debt_service,
                   initial_capex_cost, runs>>

\* lines 95-353: one iteration of the loop.
MonthStep ==
    /\ pc = "loop"
    /\ m <= months
    /\ ~SeasonalityRaises(self, start_date, m)
    /\ LET row == RowData(self, start_date, m, projection, monthly_debt_service,
                          initial_capex_cost,
                          [ owner |-> cumulative_cash_owner,
                            store |-> cumulative_cash_store,
                            prop |-> cumulative_cash_prop ])
       IN  /\ cumulative_cash_store' = row.Store_Cum
           /\ cumulative_cash_prop' = row.Prop_Cum
           /\ cumulative_cash_owner' = row.Owner_Cum
           /\ projection' = AppendRow(projection, row)
    /\ m' = m + 1
    /\ UNCHANGED <<session_state, selected, self, start_date, months, pc, monthly_debt_service,
                   initial_capex_cost, runs>>

\* line 82: calculate_monthly_payment raises; the exception leaves
\* calculate_projection and no row is returned.
CallRaises ==
    /\ pc = "ready"
    /\ PaymentRaises(self.loan_amount, self.interest_rate, self.amortization_years)
    /\ pc' = "raised"
    /\ UNCHANGED <<session_state, selected, self, start_date, months, m, projection, monthly_debt_service,
                   initial_capex_cost, cumulative_cash_owner,
                   cumulative_cash_store, cumulative_cash_prop, runs>>

\* line 113: the iteration raises before it has built its row; the exception
\* leaves calculate_projection and the rows built so far are lost.
MonthStepRaises ==
    /\ pc = "loop"
    /\ m <= months
    /\ SeasonalityRaises(self, start_date, m)
    /\ pc' = "raised"
    /\ projection' = <<>>
    /\ UNCHANGED <<session_state, selected, self, start_date, months, m, monthly_debt_service,
                   initial_capex_cost, cumulative_cash_owner,
                   cumulative_cash_store, cumulative_cash_prop, runs>>

\* Return with the loop left one iteration early (range(1, months)).
Return_OffByOne ==
    /\ pc = "loop"
    /\ m >= months
    /\ pc' = "returned"
    /\ runs' = Append(runs, [events |-> self.events, df |-> projection])
    /\ UNCHANGED <<session_state, selected, self, start_date, months, m, projection, monthly_debt_service,
                   initial_capex_cost, cumulative_cash_owner,
                   cumulative_cash_store, cumulative_cash_prop>>

\* line 355: the loop is over and the rows are returned.
Return ==
    /\ pc = "loop"
    /\ m > months
    /\ pc' = "returned"
    /\ runs' = Append(runs, [events |-> self.events, df |-> projection])
    /\ UNCHANGED <<session_state, selected, self, start_date, months, m, projection, monthly_debt_service,
                   initial_capex_cost, cumulative_cash_owner,
                   cumulative_cash_store, cumulative_cash_prop>>

\* The host edits the event list after the first run and runs again
\* (src/app.py:30-52: every change of the inputs rebuilds the model and
\* calls calculate_projection anew).
EditEvents ==
    /\ pc = "returned"
    /\ Len(runs) = 1
    /\ \E events \in EditedLists(self.events) :
           self' = [self EXCEPT !.events = events]
    /\ pc' = "ready"
    /\ UNCHANGED <<session_state, selected, start_date, months, m, projection, monthly_debt_service,
                   initial_capex_cost, cumulative_cash_owner,
                   cumulative_cash_store, cumulative_cash_prop, runs>>

Next == Call \/ MonthStep \/ Return \/ EditEvents

Spec == Init /\ [][Next]_vars

--------------------------------------------------------------------------
(* One call of calculate_projection over wider inputs: every calendar      *)
(* month as start_date (SpecCalendar), and loans of every branch of        *)
(* calculate_monthly_payment (SpecLoan).                                   *)

\* One call: entry, the iterations, the return.
Run == Call \/ MonthStep \/ Return

\* A seasonal store whose figures stay whole numbers of dollars when the
\* growth factors are squared (the third year of ownership), with four
\* different growth rates.
ConfigCompound ==
    [ ConfigSeasonal EXCEPT !.wage_growth_rate = 20,
                            !.manager_wage_hourly = 25,
                            !.hourly_wage = 25,
                            !.utilities = 400, !.insurance = 400,
                            !.maintenance = 400, !.marketing = 400,
                            !.professional_fees = 400,
                            !.commercial_rent_income = 10000,
                            !.residential_rent_income = 5000 ]

\* ConfigCompound with a manager who works more hours a month (520) than
\* the store requires (488).
ConfigOwnerOperated == [ ConfigCompound EXCEPT !.manager_weekly_hours = 120 ]

CalendarConfigs == {ConfigCompound, ConfigOwnerOperated}

\* start_date in every month of the year.
CalendarStartDates == { [year |-> 2024, month |-> c] : c \in 1..12 }

\* No event, or one revenue event in months 2 and 3.
CalendarEventLists == { <<>>, Pick(EventCatalogue, {1}) }

InitCalendar ==
    /\ \E config \in CalendarConfigs, events \in CalendarEventLists :
           self = FinancialModel(config, events)
    /\ start_date \in CalendarStartDates
    /\ months = CalendarMonths
    /\ pc = "ready"
    /\ m = 0
    /\ projection = <<>>
    /\ monthly_debt_service = 0
    /\ initial_capex_cost = 0
    /\ cumulative_cash_owner = 0
    /\ cumulative_cash_store = 0
    /\ cumulative_cash_prop = 0
    /\ runs = <<>>
    /\ session_state = NoSession
    /\ selected = None

SpecCalendar == InitCalendar /\ [][Run]_vars

\* The loans drawn: <<principal, annual_rate, years>>.  A rate of 1200 is a
\* monthly rate r of 1, for which the level payment over 12 months of a
\* principal that is a multiple of 2^12 - 1 = 4095 is a whole number; at a
\* rate <= 0 the principal is a multiple of the number of payments.
LoanInputs ==
    { t \in ({-4095, -1200, 0} \cup { 4095 * k : k \in 1..10 }
                              \cup { 12000 * k : k \in 1..10 })
            \X {-5, 0, 1200} \X {1, 5, 10, 20} :
        \/ t[1] <= 0
        \/ t[2] <= 0 /\ t[1] % (t[3] * 12) = 0
        \/ t[2] > 0 /\ t[1] % 4095 = 0 /\ t[3] = 1 }

\* No event, or a store event and a property event.
LoanEventLists == { <<>>, Pick(EventCatalogue, {2, 10}) }

InitLoan ==
    /\ \E config \in Configs, events \in LoanEventLists, t \in LoanInputs :
           self = FinancialModel([config EXCEPT !.loan_amount = t[1],
                                                !.interest_rate = t[2],
                                                !.amortization_years = t[3]],
                                 events)
    /\ start_date \in StartDates
    /\ months = MaxMonths
    /\ pc = "ready"
    /\ m = 0
    /\ projection = <<>>
    /\ monthly_debt_service = 0
    /\ initial_capex_cost = 0
    /\ cumulative_cash_owner = 0
    /\ cumulative_cash_store = 0
    /\ cumulative_cash_prop = 0
    /\ runs = <<>>
    /\ session_state = NoSession
    /\ selected = None

SpecLoan == InitLoan /\ [][Run]_vars

--------------------------------------------------------------------------
(* One call over event lists that put the event columns and the choice of  *)
(* the basis to work: events sharing a name, an inactive event, legacy     *)
(* value_type strings and an unknown pct_basis; any number of months from  *)
(* 0 (SpecEvents).                                                         *)

AuditCatalogue ==
    << BusinessEvent("Fee", 1, 120, "Monthly", "Ops (Fixed)", "Revenue", "Fixed Amount ($)", 100, "Store", TRUE),
       BusinessEvent("Fee", 2, 120, "Quarterly", "Ops (Fixed)", "Revenue", "Fixed Amount ($)", 50, "Property", TRUE),
       BusinessEvent("Fee", 1, 120, "Monthly", "Revenue", "Revenue", "Fixed Amount ($)", 1000, "Store", FALSE),
       BusinessEvent("Late", 3, 120, "One-time", "Revenue", "Revenue", "Fixed Amount ($)", 300, "Store", TRUE),
       BusinessEvent("ByRevenue", 1, 120, "Monthly", "Ops (Fixed)", "Labor", "% of Revenue", 5, "Store", TRUE),
       BusinessEvent("ByCogs", 1, 120, "Monthly", "COGS", "Revenue", "Percent of COGS", 10, "Store", TRUE),
       BusinessEvent("ByOps", 1, 120, "Monthly", "Ops (Fixed)", "Revenue", "% of Ops", 20, "Store", TRUE),
       BusinessEvent("ByNoi", 1, 120, "Monthly", "Labor", "Revenue", "% of NOI", 100, "Store", TRUE),
       BusinessEvent("ByQuarter", 1, 120, "Quarterly", "Labor", "Revenue", "% of Previous Quarter", 100, "Store", TRUE),
       BusinessEvent("ByField", 1, 120, "Monthly", "Revenue", "Revenue", "Percent of Labor", 5, "Store", TRUE),
       BusinessEvent("Mixed", 1, 120, "Monthly", "Ops (Fixed)", "Labor", "% of COGS and Revenue", 5, "Store", TRUE),
       BusinessEvent("Ebitda", 1, 120, "Monthly", "Revenue", "EBITDA", "Percentage (%)", 50, "Store", TRUE),
       BusinessEvent("Plain", 1, 120, "Monthly", "Revenue", "COGS", "Percentage (%)", 10, "Store", TRUE) >>

\* The event lists of at most MaxEvents events of the audit catalogue.
AuditEventLists ==
    { Pick(AuditCatalogue, S) :
        S \in { T \in SUBSET (1..Len(AuditCatalogue)) : Cardinality(T) <= MaxEvents } }

InitEvents ==
    /\ \E events \in AuditEventLists : self = FinancialModel(ConfigFlat, events)
    /\ start_date \in StartDates
    /\ months \in 0..MaxMonths
    /\ pc = "ready"
    /\ m = 0
    /\ projection = <<>>
    /\ monthly_debt_service = 0
    /\ initial_capex_cost = 0
    /\ cumulative_cash_owner = 0
    /\ cumulative_cash_store = 0
    /\ cumulative_cash_prop = 0
    /\ runs = <<>>
    /\ session_state = NoSession
    /\ selected = None

SpecEvents == InitEvents /\ [][Run]_vars

\* One call over any number of months from 0, without events or with a
\* quarterly and a one-time event.
TerminationEventLists == { <<>>, Pick(AuditCatalogue, {2, 4}) }

InitTermination ==
    /\ \E events \in TerminationEventLists :
           self = FinancialModel(ConfigFlat, events)
    /\ start_date \in StartDates
    /\ months \in 0..MaxMonths
    /\ pc = "ready"
    /\ m = 0
    /\ projection = <<>>
    /\ monthly_debt_service = 0
    /\ initial_capex_cost = 0
    /\ cumulative_cash_owner = 0
    /\ cumulative_cash_store = 0
    /\ cumulative_cash_prop = 0
    /\ runs = <<>>
    /\ session_state = NoSession
    /\ selected = None

\* The call is sequential code (a for loop over range): once entered it
\* keeps taking its next step.
SpecTermination == InitTermination /\ [][Run]_vars /\ WF_vars(Run)

--------------------------------------------------------------------------
(* One call on a configuration that the layers above did not reject        *)
(* (SpecInvalid): no or a negative number of amortization years, a         *)
(* seasonality list of fewer than four entries.                            *)

InvalidConfigs ==
    { [ConfigFlat EXCEPT !.amortization_years = 0],
      [ConfigFlat EXCEPT !.amortization_years = 0, !.interest_rate = 1200],
      [ConfigFlat EXCEPT !.amortization_years = 0, !.loan_amount = 0],
      [ConfigFlat EXCEPT !.amortization_years = -10],
      [ConfigFlat EXCEPT !.seasonality = <<>>],
      [ConfigFlat EXCEPT !.seasonality = <<100>>],
      [ConfigFlat EXCEPT !.seasonality = <<100, 100>>],
      [ConfigFlat EXCEPT !.seasonality = <<100, 100, 100>>] }

InitInvalid ==
    /\ \E config \in InvalidConfigs, events \in LoanEventLists :
           self = FinancialModel(config, events)
    /\ start_date \in StartDates
    /\ months = MaxMonths
    /\ pc = "ready"
    /\ m = 0
    /\ projection = <<>>
    /\ monthly_debt_service = 0
    /\ initial_capex_cost = 0
    /\ cumulative_cash_owner = 0
    /\ cumulative_cash_store = 0
    /\ cumulative_cash_prop = 0
    /\ runs = <<>>
    /\ session_state = NoSession
    /\ selected = None

\* One call that may raise.
RunInvalid == Call \/ CallRaises \/ MonthStep \/ MonthStepRaises \/ Return

SpecInvalid == InitInvalid /\ [][RunInvalid]_vars

--------------------------------------------------------------------------
(* The event manager of the views (src/views/sidebar.py, lines 288-480;    *)
(* src/views/dashboard.py, lines 754-864, has the same handlers).  Every   *)
(* button is one run of the script: the handler changes st.session_state   *)
(* and calls st.rerun().  edit_event_idx is a 0-based Python index, so the *)
(* event it refers to is events_data[edit_event_idx + 1] here.  The dicts  *)
(* of events_data are reduced to name, value and is_active; the user gives *)
(* each event a name of its own, and leaves the name in the form as it was *)
(* loaded when updating.                                                   *)

\* The names and the values the user types into the form.
FormNames == {"Bonus", "Promo", "Roof"}

FormValues == {100, 200}

EngineIdle ==
    UNCHANGED <<self, start_date, months, m, projection, monthly_debt_service,
                initial_capex_cost, cumulative_cash_owner, cumulative_cash_store,
                cumulative_cash_prop, runs>>

\* sidebar.py lines 413-432: the button "Add Event", shown when no edit is
\* under way.
AddEvent ==
    /\ session_state.edit_event_idx = None
    /\ \E e_name \in FormNames, e_val \in FormValues :
           /\ \A i \in 1..Len(session_state.events_data) :
                  session_state.events_data[i].name # e_name
           /\ session_state' =
                  [session_state EXCEPT !.events_data =
                      Append(@, [name |-> e_name, value |-> e_val, is_active |-> TRUE])]
    /\ pc' = "editing"
    /\ UNCHANGED selected
    /\ EngineIdle

\* sidebar.py lines 471-473: the button "edit" of the i-th event of the list.
SelectEdit ==
    /\ \E i \in 0..(Len(session_state.events_data) - 1) :
           /\ session_state' = [session_state EXCEPT !.edit_event_idx = i]
           /\ selected' = session_state.events_data[i + 1].name
    /\ pc' = "editing"
    /\ EngineIdle

\* sidebar.py lines 388-406: the button "Update Event", shown while an edit is
\* under way; the event at edit_idx is replaced by the form's and the edit
\* ends.
UpdateEvent ==
    /\ session_state.edit_event_idx # None
    /\ session_state.edit_event_idx < Len(session_state.events_data)
    /\ \E e_val \in FormValues :
           LET edit_idx == session_state.edit_event_idx
               ev == session_state.events_data[edit_idx + 1]
               new_event_dict == [name |-> ev.name, value |-> e_val,
                                  is_active |-> ev.is_active]
           IN  session_state' =
                   [ events_data |->
                         [session_state.events_data EXCEPT ![edit_idx + 1] = new_event_dict],
                     edit_event_idx |-> None ]
    /\ selected' = None
    /\ pc' = "editing"
    /\ EngineIdle

\* sidebar.py line 402: events_data[edit_idx] is out of range (IndexError)
\* while the new dict is built; nothing is written.
UpdateRaises ==
    /\ session_state.edit_event_idx # None
    /\ session_state.edit_event_idx >= Len(session_state.events_data)
    /\ pc' = "raised"
    /\ UNCHANGED <<session_state, selected>>
    /\ EngineIdle

\* sidebar.py lines 409-411: the button "Cancel".
CancelEdit ==
    /\ session_state.edit_event_idx # None
    /\ session_state' = [session_state EXCEPT !.edit_event_idx = None]
    /\ selected' = None
    /\ pc' = "editing"
    /\ EngineIdle

\* sidebar.py lines 465-468: the checkbox "Active" of the i-th event.
ToggleActive ==
    /\ \E i \in 0..(Len(session_state.events_data) - 1) :
           session_state' =
               [session_state EXCEPT !.events_data[i + 1].is_active = ~@]
    /\ pc' = "editing"
    /\ UNCHANGED selected
    /\ EngineIdle

\* sidebar.py lines 475-480: the button "delete" of the i-th event: pop(i),
\* and the edit ends only if the event deleted is the one at edit_event_idx.
DeleteEvent ==
    /\ \E i \in 0..(Len(session_state.events_data) - 1) :
           /\ session_state' =
                  [ events_data |-> RemoveAt(session_state.events_data, i + 1),
                    edit_event_idx |->
                        IF session_state.edit_event_idx = i THEN None
                        ELSE session_state.edit_event_idx ]
           /\ selected' = IF session_state.edit_event_idx = i THEN None ELSE selected
    /\ pc' = "editing"
    /\ EngineIdle

InitEditor ==
    /\ self = FinancialModel(ConfigFlat, <<>>)
    /\ start_date \in StartDates
    /\ months = MaxMonths
    /\ pc = "editing"
    /\ m = 0
    /\ projection = <<>>
    /\ monthly_debt_service = 0
    /\ initial_capex_cost = 0
    /\ cumulative_cash_owner = 0
    /\ cumulative_cash_store = 0
    /\ cumulative_cash_prop = 0
    /\ runs = <<>>
    /\ session_state = NoSession
    /\ selected = None

Interact ==
    \/ AddEvent \/ SelectEdit \/ UpdateEvent \/ UpdateRaises \/ CancelEdit
    \/ ToggleActive \/ DeleteEvent

SpecEditor == InitEditor /\ [][Interact]_vars

--------------------------------------------------------------------------
(* Vocabulary of the properties.                                           *)

\* The monetary and calendar fields of a row: all but the event columns.
Ledger(row) == [ f \in (DOMAIN row) \ {"Event"} |-> row[f] ]

\* b is a reordering of a.
IsPermutation(a, b) ==
    /\ Len(a) = Len(b)
    /\ \E p \in Permutations(1..Len(a)) : \A i \in 1..Len(a) : b[i] = a[p[i]]

\* The running call has built at least one row with the events of self.
RowBuilt == pc \in {"loop", "returned"} /\ Len(projection) >= 1

\* The newest row of the running call, and the rows it was computed from.
LastRow == projection[Len(projection)]

History == SubSeq(projection, 1, Len(projection) - 1)

\* The newest row as the same iteration computes it, from the same history,
\* when the i-th event is not in the list.
LastRowWithout(i) ==
    LET k == Len(projection)
        cum == IF k = 1
               THEN [ owner |-> -initial_capex_cost, store |-> -initial_capex_cost,
                      prop |-> 0 ]
               ELSE [ owner |-> projection[k - 1].Owner_Cum,
                      store |-> projection[k - 1].Store_Cum,
                      prop |-> projection[k - 1].Prop_Cum ]
    IN  RowData([self EXCEPT !.events = RemoveAt(self.events, i)], start_date, k,
                History, monthly_debt_service, initial_capex_cost, cum)

\* The value in the column of name in a row (0 when the row has no such column).
Column(row, name) == IF name \in DOMAIN row.Event THEN row.Event[name] ELSE 0

\* What the i-th event adds to its column in the newest row.
Contribution(i) ==
    Column(LastRow, self.events[i].name) - Column(LastRowWithout(i), self.events[i].name)

\* The applicability rule as the specification states it.
InWindow(e, k) == e.start_month <= k /\ k <= e.end_month

FrequencyHolds(e, k) ==
    \/ e.frequency = "One-time" /\ k = e.start_month
    \/ e.frequency = "Monthly"
    \/ e.frequency = "Quarterly" /\ (k - e.start_month) % 3 = 0
    \/ e.frequency = "Annually" /\ (k - e.start_month) % 12 = 0

Applicable(e, k) == e.is_active /\ InWindow(e, k) /\ FrequencyHolds(e, k)

\* A percentage event sized on the basis b by its field pct_basis.
PercentageOf(e, b) == e.value_type = "Percentage (%)" /\ e.pct_basis = b

\* The base figure of a basis in month k: the figure of the month before any
\* event, which is the figure of the row of a model without events.
BaseRow(k) ==
    RowData([self EXCEPT !.events = <<>>], start_date, k, <<>>, monthly_debt_service,
            initial_capex_cost, [owner |-> 0, store |-> 0, prop |-> 0])

BaseFigure(b, k) ==
    CASE b = "Revenue" -> BaseRow(k).Store_Revenue
      [] b = "COGS" -> -BaseRow(k).Store_COGS
      [] b = "Labor" -> -BaseRow(k).Store_Labor
      [] b = "Ops (Fixed)" -> -BaseRow(k).Store_Ops_Ex
      [] b = "Rent" -> -BaseRow(k).Store_Rent_Ex
      [] b = "Capex" -> 0

PlainBases == {"Revenue", "COGS", "Labor", "Ops (Fixed)", "Rent", "Capex"}

\* The lookback window of the specification.
LookbackWindow(e) ==
    CASE e.frequency = "Monthly" -> 1
      [] e.frequency = "Quarterly" -> 3
      [] e.frequency = "Annually" -> 12
      [] OTHER -> 1

RECURSIVE SumNOI(_, _, _)
\* The sum of Store_NOI_Pre over the rows lo..hi of rows.
SumNOI(rows, lo, hi) ==
    IF lo > hi THEN 0 ELSE rows[hi].Store_NOI_Pre + SumNOI(rows, lo, hi - 1)

\* The trailing sum an NOI event sees in month k (k > window).
TrailingNOI(e, k) == SumNOI(projection, k - LookbackWindow(e), k - 1)

--------------------------------------------------------------------------
(* Properties.                                                             *)

\* C1  Event order independence: two runs of the same configuration whose
\* event lists are reorderings of one another give the same value to every
\* ledger field of every month.
C1_OrderIndependence ==
    (Len(runs) = 2 /\ IsPermutation(runs[1].events, runs[2].events))
    => \A k \in 1..Len(runs[1].df) : Ledger(runs[1].df[k]) = Ledger(runs[2].df[k])

\* C1 witness: the list was really reordered, and in some month a percentage
\* event sized on a basis and an event targeting that same figure both
\* contributed.
C1_Witness ==
    /\ Len(runs) = 2
    /\ runs[1].events # runs[2].events
    /\ IsPermutation(runs[1].events, runs[2].events)
    /\ \E k \in 1..Len(runs[1].df), i, j \in 1..Len(runs[1].events) :
           LET a == runs[1].events[i]
               b == runs[1].events[j]
           IN  /\ i # j
               /\ a.value_type = "Percentage (%)" /\ a.pct_basis = b.impact_target
               /\ runs[1].df[k].Event[a.name] # 0
               /\ runs[1].df[k].Event[b.name] # 0

\* C2  Applicability: an active event contributes its value to the row of
\* month k exactly when k lies in its window and its frequency predicate
\* holds; in every other month the row is the row computed without it.
C2_Applicability ==
    RowBuilt =>
        \A i \in 1..Len(self.events) :
            LET e == self.events[i]
                k == Len(projection)
            IN  e.is_active =>
                  IF InWindow(e, k) /\ FrequencyHolds(e, k)
                  THEN /\ Applies(e, k)
                       /\ e.value_type = "Fixed Amount ($)" => Contribution(i) = e.value
                       /\ Contribution(i) = EventValue(e, k, BaseFigures(self, start_date, k), NoImpacts, History)
                  ELSE /\ ~Applies(e, k)
                       /\ Contribution(i) = 0
                       /\ Ledger(LastRowWithout(i)) = Ledger(LastRow)

\* C2 witness: the row of a month after the window of an active event that
\* contributed inside its window (a Monthly event with window 2..3, seen
\* from month 4 on).
C2_Witness ==
    /\ RowBuilt
    /\ \E i \in 1..Len(self.events) :
           LET e == self.events[i]
           IN  /\ e.is_active /\ e.frequency = "Monthly"
               /\ e.end_month < Len(projection)
               /\ projection[e.end_month].Event[e.name] # 0
               /\ LastRow.Event[e.name] = 0

\* C3  Percentage sizing uses the pre-event base: a Percentage event on a
\* basis other than NOI contributes value/100 times the base figure of the
\* month, whatever the other events of the month add; on Capex it
\* contributes 0.
C3_PercentageOfBase ==
    RowBuilt =>
        \A i \in 1..Len(self.events) :
            LET e == self.events[i]
                k == Len(projection)
            IN  \A b \in PlainBases :
                    (PercentageOf(e, b) /\ Applicable(e, k))
                    => /\ 100 * Contribution(i) = e.value * BaseFigure(b, k)
                       /\ b = "Capex" => Contribution(i) = 0

\* C3 witness: an event raised the labor of the month and, after it in the
\* list, a percentage event sized on labor contributed in the same month.
C3_Witness ==
    /\ RowBuilt
    /\ \E i, j \in 1..Len(self.events) :
           /\ i < j
           /\ self.events[i].impact_target = "Labor"
           /\ Applicable(self.events[i], Len(projection))
           /\ Contribution(i) > 0
           /\ PercentageOf(self.events[j], "Labor")
           /\ Applicable(self.events[j], Len(projection))
           /\ Contribution(j) > 0

\* C4  NOI lookback value: an applicable Percentage event with basis NOI
\* whose trailing sum S of Store_NOI_Pre over the rows k-window .. k-1 is
\* positive contributes value/100 * S; in a month in which it does not apply
\* it contributes nothing.
C4_LookbackValue ==
    RowBuilt =>
        \A i \in 1..Len(self.events) :
            LET e == self.events[i]
                k == Len(projection)
            IN  (PercentageOf(e, "NOI") /\ e.is_active)
                => /\ (Applicable(e, k) /\ k > LookbackWindow(e) /\ TrailingNOI(e, k) > 0)
                      => 100 * Contribution(i) = e.value * TrailingNOI(e, k)
                   /\ ~Applicable(e, k) => Contribution(i) = 0

\* C4 witness: a Quarterly NOI event contributed the positive sum of the
\* three rows before it, one month ago, and contributes nothing now.
C4_Witness ==
    /\ RowBuilt
    /\ Len(projection) >= 5
    /\ \E i \in 1..Len(self.events) :
           LET e == self.events[i]
               k == Len(projection) - 1
           IN  /\ PercentageOf(e, "NOI") /\ e.frequency = "Quarterly"
               /\ Applicable(e, k)
               /\ TrailingNOI(e, k) > 0
               /\ 100 * projection[k].Event[e.name] = e.value * TrailingNOI(e, k)
               /\ LastRow.Event[e.name] = 0

\* C5  NOI lookback floor: an NOI-basis event contributes exactly 0 when
\* fewer than window months precede the month or the trailing sum is not
\* positive, and never contributes a negative amount.
C5_LookbackFloor ==
    RowBuilt =>
        \A i \in 1..Len(self.events) :
            LET e == self.events[i]
                k == Len(projection)
            IN  (PercentageOf(e, "NOI") /\ Applicable(e, k))
                => /\ k <= LookbackWindow(e) => Contribution(i) = 0
                   /\ (k > LookbackWindow(e) /\ TrailingNOI(e, k) <= 0) => Contribution(i) = 0
                   /\ e.value >= 0 => Contribution(i) >= 0

\* C5 witness: an NOI event applies while the trailing sum is negative.
C5_Witness ==
    /\ RowBuilt
    /\ \E i \in 1..Len(self.events) :
           LET e == self.events[i]
               k == Len(projection)
           IN  /\ PercentageOf(e, "NOI") /\ Applicable(e, k)
               /\ k > LookbackWindow(e)
               /\ TrailingNOI(e, k) < 0
               /\ Contribution(i) = 0

\* C6  Lookback reads only finalized history: while month m is computed the
\* list holds exactly the rows of the months before m, the lookback of every
\* NOI event reads rows of months below m only, an iteration appends one row
\* and leaves the rows before it as they are, and the rows a call returned
\* stay as they are while a later call runs.
C6_FinalizedHistory ==
    [][ /\ pc' = "loop" =>
            /\ Len(projection') = m' - 1
            /\ \A i \in 1..Len(self'.events) :
                   \A r \in LookbackRows(m', Window(self'.events[i])) :
                       r < m' /\ r \in DOMAIN projection'
        /\ (pc = "loop" /\ pc' = "loop") =>
            /\ Len(projection') = Len(projection) + 1
            /\ SubSeq(projection', 1, Len(projection)) = projection
        /\ (pc = "loop" /\ pc' = "returned") =>
            runs'[Len(runs')].df = projection
        /\ Len(runs) >= 1 => (Len(runs') >= 1 /\ runs'[1] = runs[1])
      ]_vars

\* C6 witness: an NOI event has contributed in an earlier month of the running
\* call, more rows have been appended since, and the call runs after another
\* one has returned.
C6_Witness ==
    /\ pc = "loop"
    /\ Len(runs) = 1
    /\ Len(projection) >= 5
    /\ \E i \in 1..Len(self.events) :
           /\ PercentageOf(self.events[i], "NOI")
           /\ projection[2].Event[self.events[i].name] > 0

\* C7  Pre-bonus NOI (as the claim states it): a Labor-targeted NOI-basis
\* event that applies in month k leaves the Store_NOI_Pre of the row of month
\* k as it is without the event.
C7_PreBonusNOI ==
    RowBuilt =>
        \A i \in 1..Len(self.events) :
            LET e == self.events[i]
            IN  (PercentageOf(e, "NOI") /\ e.impact_target = "Labor"
                 /\ Applicable(e, Len(projection)))
                => LastRowWithout(i).Store_NOI_Pre = LastRow.Store_NOI_Pre

\* C8  is_active gating: a run whose list holds an inactive event gives, in
\* every month, the ledger of the run without that event, a column of 0 for
\* the event, and the same columns for the other events.
C8_InactiveIsAbsent ==
    Len(runs) = 2 =>
        \A i \in 1..Len(runs[1].events) :
            (~runs[1].events[i].is_active
             /\ runs[2].events = RemoveAt(runs[1].events, i))
            => \A k \in 1..Len(runs[1].df) :
                   /\ Ledger(runs[1].df[k]) = Ledger(runs[2].df[k])
                   /\ runs[1].df[k].Event[runs[1].events[i].name] = 0
                   /\ \A n \in DOMAIN runs[2].df[k].Event :
                          runs[1].df[k].Event[n] = runs[2].df[k].Event[n]

\* C8 witness: the second run is the first without its inactive event; that
\* event names a non-zero value and a window and frequency that hold in some
\* month, and another event of the list contributed.
C8_Witness ==
    /\ Len(runs) = 2
    /\ \E i, j \in 1..Len(runs[1].events) :
           LET e == runs[1].events[i]
           IN  /\ ~e.is_active
               /\ e.value_type = "Fixed Amount ($)" /\ e.value # 0
               /\ runs[2].events = RemoveAt(runs[1].events, i)
               /\ \E k \in 1..Len(runs[1].df) :
                      /\ InWindow(e, k) /\ FrequencyHolds(e, k)
                      /\ runs[1].df[k].Event[runs[1].events[j].name] # 0

\* C9  Entity isolation for Ops events: an applicable Ops event of the
\* Property lowers Prop_Net by its value and leaves the store's opex, NOI and
\* net as they are; an applicable Ops event of the Store raises the store
\* opex by its value and leaves Prop_Net as it is.
C9_OpsEntityIsolation ==
    RowBuilt =>
        \A i \in 1..Len(self.events) :
            LET e == self.events[i]
                v == Contribution(i)
                with == LastRow
                without == LastRowWithout(i)
            IN  (e.impact_target = "Ops (Fixed)" /\ Applicable(e, Len(projection)))
                => /\ e.affected_entity = "Property" =>
                          /\ with.Prop_Net = without.Prop_Net - v
                          /\ with.Store_Ops_Ex = without.Store_Ops_Ex
                          /\ with.Store_NOI_Pre = without.Store_NOI_Pre
                          /\ with.Store_Net = without.Store_Net
                   /\ e.affected_entity = "Store" =>
                          /\ with.Store_Ops_Ex = without.Store_Ops_Ex - v
                          /\ with.Prop_Net = without.Prop_Net

\* C9 witness: a Property Ops event and a Store Ops event both contributed a
\* non-zero value to the newest row.
C9_Witness ==
    /\ RowBuilt
    /\ \E i, j \in 1..Len(self.events) :
           /\ self.events[i].impact_target = "Ops (Fixed)"
           /\ self.events[i].affected_entity = "Property"
           /\ Applicable(self.events[i], Len(projection))
           /\ Contribution(i) # 0
           /\ self.events[j].impact_target = "Ops (Fixed)"
           /\ self.events[j].affected_entity = "Store"
           /\ Applicable(self.events[j], Len(projection))
           /\ Contribution(j) # 0

RECURSIVE StoreCapexImpact(_)
\* The sum of the contributions to the newest row of the first n events that
\* target Capex and are not the Property's.
StoreCapexImpact(n) ==
    IF n = 0 THEN 0
    ELSE StoreCapexImpact(n - 1)
         + (IF /\ self.events[n].impact_target = "Capex"
               /\ self.events[n].affected_entity # "Property"
            THEN Contribution(n) ELSE 0)

\* C10  Capex allocation: an applicable Capex event lowers Prop_Net by its
\* value and leaves Store_Net when it is the Property's, and lowers Store_Net
\* by its value and leaves Prop_Net otherwise; Store_NOI_Pre is as it is
\* without the event, and in every row Store_Net = Store_NOI_Pre minus the
\* store-side Capex impact of the month.
C10_CapexAllocation ==
    RowBuilt =>
        /\ LastRow.Store_Net = LastRow.Store_NOI_Pre - StoreCapexImpact(Len(self.events))
        /\ \A i \in 1..Len(self.events) :
               LET e == self.events[i]
                   v == Contribution(i)
                   with == LastRow
                   without == LastRowWithout(i)
               IN  (e.impact_target = "Capex" /\ Applicable(e, Len(projection)))
                   => /\ with.Store_NOI_Pre = without.Store_NOI_Pre
                      /\ IF e.affected_entity = "Property"
                         THEN /\ with.Prop_Net = without.Prop_Net - v
                              /\ with.Store_Net = without.Store_Net
                         ELSE /\ with.Store_Net = without.Store_Net - v
                              /\ with.Prop_Net = without.Prop_Net

\* C10 witness: a Property Capex event and a Store Capex event both
\* contributed a non-zero value to the newest row.
C10_Witness ==
    /\ RowBuilt
    /\ \E i, j \in 1..Len(self.events) :
           /\ self.events[i].impact_target = "Capex"
           /\ self.events[i].affected_entity = "Property"
           /\ Applicable(self.events[i], Len(projection))
           /\ Contribution(i) # 0
           /\ self.events[j].impact_target = "Capex"
           /\ self.events[j].affected_entity # "Property"
           /\ Applicable(self.events[j], Len(projection))
           /\ Contribution(j) # 0

--------------------------------------------------------------------------
(* Vocabulary of the ledger identities.                                    *)

Entities == {"Store", "Property", "Both"}

RECURSIVE TargetImpact(_, _, _)
\* The sum of the contributions to the newest row of the first n events whose
\* impact_target is in targets and whose affected_entity is in entities.
TargetImpact(targets, entities, n) ==
    IF n = 0 THEN 0
    ELSE TargetImpact(targets, entities, n - 1)
         + (IF /\ self.events[n].impact_target \in targets
               /\ self.events[n].affected_entity \in entities
            THEN Contribution(n) ELSE 0)

\* C11  Rent mirroring: the store's rent expense of the month is the base
\* rent plus the Rent-event impacts, the property's net moves with that
\* expense one for one, and an applicable Rent event of value v lowers
\* Store_Net by v, raises Prop_Net by v and leaves Owner_Cash_Flow, whatever
\* its affected_entity.
C11_RentMirroring ==
    RowBuilt =>
        LET k == Len(projection)
            n == Len(self.events)
            rent == TargetImpact({"Rent"}, Entities, n)
        IN  /\ -LastRow.Store_Rent_Ex = -BaseRow(k).Store_Rent_Ex + rent
            /\ LastRow.Prop_Net - BaseRow(k).Prop_Net
                   = rent - TargetImpact({"Ops (Fixed)", "Capex"}, {"Property"}, n)
            /\ \A i \in 1..n :
                   LET e == self.events[i]
                       v == Contribution(i)
                       with == LastRow
                       without == LastRowWithout(i)
                   IN  (e.impact_target = "Rent" /\ Applicable(e, k))
                       => /\ with.Store_Net = without.Store_Net - v
                          /\ with.Prop_Net = without.Prop_Net + v
                          /\ with.Owner_Cash_Flow = without.Owner_Cash_Flow

\* C11 witness: a Rent event of the Property and a Rent event of the Store
\* both contributed a non-zero value to the newest row.
C11_Witness ==
    /\ RowBuilt
    /\ \E i, j \in 1..Len(self.events) :
           /\ self.events[i].impact_target = "Rent"
           /\ self.events[i].affected_entity = "Property"
           /\ Applicable(self.events[i], Len(projection))
           /\ Contribution(i) # 0
           /\ self.events[j].impact_target = "Rent"
           /\ self.events[j].affected_entity = "Store"
           /\ Applicable(self.events[j], Len(projection))
           /\ Contribution(j) # 0

\* The values of the three enumerated fields of an event that the engine
\* gives a meaning to.
Frequencies == {"One-time", "Monthly", "Quarterly", "Annually"}

ImpactTargets == {"Revenue", "COGS", "Labor", "Ops (Fixed)", "Rent", "Capex"}

ValueTypes ==
    {"Fixed Amount ($)", "Percentage (%)", "Percent of Labor", "% of Revenue",
     "% of COGS", "% of Ops", "% of NOI", "% of Previous Quarter NOI"}

Malformed(e) ==
    \/ e.frequency \notin Frequencies
    \/ e.value_type \notin ValueTypes
    \/ e.impact_target \notin ImpactTargets

\* C12  Malformed events are no-ops: a run whose list holds an event with an
\* unrecognised frequency, value_type or impact_target returns all its rows,
\* and every ledger field of every row is that of the run without the event.
C12_MalformedIsNoOp ==
    Len(runs) = 2 =>
        \A i \in 1..Len(runs[1].events) :
            (Malformed(runs[1].events[i])
             /\ runs[2].events = RemoveAt(runs[1].events, i))
            => /\ Len(runs[1].df) = months
               /\ Len(runs[2].df) = months
               /\ \A k \in 1..months :
                      Ledger(runs[1].df[k]) = Ledger(runs[2].df[k])

\* C12 witness: the second run is the first without its malformed event; that
\* event is active with a non-zero value in a window that holds, and another
\* event of the list contributed.
C12_Witness ==
    /\ Len(runs) = 2
    /\ \E i, j \in 1..Len(runs[1].events) :
           LET e == runs[1].events[i]
           IN  /\ Malformed(e)
               /\ e.is_active /\ e.value # 0
               /\ runs[2].events = RemoveAt(runs[1].events, i)
               /\ \E k \in 1..Len(runs[1].df) :
                      /\ InWindow(e, k)
                      /\ runs[1].df[k].Event[runs[1].events[j].name] # 0
                      /\ ~Malformed(runs[1].events[j])

\* C13  Determinism and re-run idempotence: no step of a call changes the
\* model (configuration, event list, event fields) or the arguments, the
\* events a call returns with are those it was entered with, and two calls
\* on the same model return the same rows.
C13_Determinism ==
    [][ /\ pc \in {"ready", "loop"} =>
            /\ self' = self
            /\ start_date' = start_date
            /\ months' = months
        /\ (pc = "loop" /\ pc' = "returned") =>
            runs'[Len(runs')].events = self.events
        /\ (Len(runs') = 2 /\ runs'[1].events = runs'[2].events) =>
            runs'[1].df = runs'[2].df
      ]_vars

\* C13 witness: two calls on the same non-empty event list have returned;
\* an event contributed and the running balance of the owner did not end
\* at 0.
C13_Witness ==
    /\ Len(runs) = 2
    /\ runs[1].events = runs[2].events
    /\ Len(runs[1].events) >= 1
    /\ \E k \in 1..Len(runs[1].df) :
           runs[1].df[k].Event[runs[1].events[1].name] # 0
    /\ runs[1].df[Len(runs[1].df)].Owner_Cum # 0

--------------------------------------------------------------------------
(* Growth and seasonality (checked under SpecCalendar).                    *)

\* The row of month k of the model without events when the run starts at sd.
BaseRowFrom(sd, k) ==
    RowData([self EXCEPT !.events = <<>>], sd, k, <<>>, monthly_debt_service,
            initial_capex_cost, [owner |-> 0, store |-> 0, prop |-> 0])

\* C14  Ownership-year growth stepping: with y = (k-1) div 12, Project_Year
\* is y + 1; the rent and the expense lines of month k are the inputs times
\* (1 + rate/100)^y; revenue, COGS and labor of month k >= 13 are those of
\* month k - 12 (the same calendar month) times 1 + rate/100; within a block
\* of 12 project months the figures of months of the same calendar quarter
\* are equal, also across a calendar-year boundary; and the unseasonal
\* figures and Project_Year are the same for every start_date.
C14_GrowthStepping ==
    RowBuilt =>
        LET k == Len(projection)
            y == (k - 1) \div 12
            row == BaseRow(k)
        IN  /\ LastRow.Project_Year = y + 1
            /\ row.Project_Year = y + 1
            /\ -row.Store_Rent_Ex * Pow(100, y)
                   = self.commercial_rent_income * Pow(100 + self.rent_escalation_rate, y)
            /\ -row.Ex_Util * Pow(100, y)
                   = self.utilities * Pow(100 + self.expense_growth_rate, y)
            /\ -row.Store_Ops_Ex * Pow(100, y)
                   = (self.utilities + self.insurance + self.maintenance
                      + self.marketing + self.professional_fees)
                     * Pow(100 + self.expense_growth_rate, y)
            /\ k >= 13 =>
                   /\ 100 * row.Store_Revenue
                          = (100 + self.revenue_growth_rate) * BaseRow(k - 12).Store_Revenue
                   /\ 100 * row.Store_COGS
                          = (100 + self.revenue_growth_rate) * BaseRow(k - 12).Store_COGS
                   /\ 100 * row.Store_Labor
                          = (100 + self.wage_growth_rate) * BaseRow(k - 12).Store_Labor
            /\ \A j \in 1..k :
                   ((j - 1) \div 12 = y) =>
                       /\ BaseRow(j).Store_Rent_Ex = row.Store_Rent_Ex
                       /\ BaseRow(j).Store_Ops_Ex = row.Store_Ops_Ex
                       /\ BaseRow(j).Quarter = row.Quarter =>
                              /\ BaseRow(j).Store_Revenue = row.Store_Revenue
                              /\ BaseRow(j).Store_COGS = row.Store_COGS
                              /\ BaseRow(j).Store_Labor = row.Store_Labor
            /\ \A sd \in CalendarStartDates :
                   /\ BaseRowFrom(sd, k).Project_Year = row.Project_Year
                   /\ BaseRowFrom(sd, k).Store_Rent_Ex = row.Store_Rent_Ex
                   /\ BaseRowFrom(sd, k).Store_Ops_Ex = row.Store_Ops_Ex
                   /\ BaseRowFrom(sd, k).Prop_Net = row.Prop_Net

\* C14 witness: months 13 and 25 have been computed, each with a higher
\* revenue and rent than the months before, in a run that crossed a
\* calendar-year boundary before month 13 without a change of the rent.
C14_Witness ==
    /\ RowBuilt
    /\ Len(projection) >= 25
    /\ projection[13].Store_Revenue > projection[1].Store_Revenue
    /\ projection[13].Store_Rent_Ex < projection[12].Store_Rent_Ex
    /\ projection[25].Store_Revenue > projection[13].Store_Revenue
    /\ projection[25].Store_Rent_Ex < projection[24].Store_Rent_Ex
    /\ projection[25].Project_Year = 3
    /\ \E j \in 2..12 :
           /\ projection[j].Year = projection[j - 1].Year + 1
           /\ projection[j].Store_Rent_Ex = projection[j - 1].Store_Rent_Ex
           /\ projection[j].Project_Year = 1

\* The first row of a run of the example of the seasonality test: the
\* seasonal configuration with a base revenue of 10000, started in January.
ExampleRevenue(k) ==
    RowData(FinancialModel([ConfigSeasonal EXCEPT !.base_revenue = 10000], <<>>),
            [year |-> 2024, month |-> 1], k, <<>>, 0, 0,
            [owner |-> 0, store |-> 0, prop |-> 0]).Store_Revenue

\* C15  Calendar seasonality: with c the calendar month of start_date plus
\* k - 1 months and q = (c-1) div 3, the row of month k has Month = c and
\* Quarter = q + 1, and its base revenue is base_revenue times the growth
\* factor times seasonality[q]; the revenue of the row is that plus the
\* revenue events.  In the example (seasonality 0.5, 1, 1.5, 1, base 10000,
\* January start) month 1 has 5000 and month 7 has 15000; a run started in
\* October has quarter 4 in months 1-3 and quarter 1 in months 4-6.
C15_CalendarSeasonality ==
    RowBuilt =>
        LET k == Len(projection)
            y == (k - 1) \div 12
            c == ((start_date.month - 1 + (k - 1)) % 12) + 1
            q == (c - 1) \div 3
        IN  /\ LastRow.Month = c
            /\ LastRow.Year = start_date.year + ((start_date.month - 1 + (k - 1)) \div 12)
            /\ LastRow.Quarter = q + 1
            /\ BaseRow(k).Store_Revenue * Pow(100, y)
                   = (self.base_revenue \div 100)
                     * Pow(100 + self.revenue_growth_rate, y) * self.seasonality[q + 1]
            /\ LastRow.Store_Revenue
                   = BaseRow(k).Store_Revenue
                     + TargetImpact({"Revenue"}, Entities, Len(self.events))
            /\ ExampleRevenue(1) = 5000
            /\ ExampleRevenue(7) = 15000
            /\ (start_date.month = 10 /\ k \in 1..3) =>
                   /\ LastRow.Quarter = 4
                   /\ 100 * BaseRow(k).Store_Revenue = self.base_revenue * self.seasonality[4]
            /\ (start_date.month = 10 /\ k \in 4..6) =>
                   /\ LastRow.Quarter = 1
                   /\ 100 * BaseRow(k).Store_Revenue = self.base_revenue * self.seasonality[1]

\* C15 witness: a run started in October has computed month 4, a January
\* with the multiplier of the first quarter, after a December with that of
\* the fourth.
C15_Witness ==
    /\ RowBuilt
    /\ start_date.month = 10
    /\ Len(projection) = 4
    /\ LastRow.Month = 1 /\ LastRow.Quarter = 1
    /\ projection[3].Month = 12 /\ projection[3].Quarter = 4
    /\ self.seasonality[1] # self.seasonality[4]
    /\ 2 * LastRow.Store_Revenue = BaseRow(1).Store_Revenue

--------------------------------------------------------------------------
(* Ledger identities (checked under Spec).                                 *)

\* C16  Store NOI identity: in every row each store line is its base figure
\* plus the impact of the events that target it, and Store_NOI_Pre is the
\* revenue minus COGS, labor, opex and rent; the expense fields being
\* negated magnitudes, Store_NOI_Pre is the sum of the five fields.
C16_StoreNOIIdentity ==
    RowBuilt =>
        LET r == LastRow
            b == BaseRow(Len(projection))
            n == Len(self.events)
        IN  /\ r.Store_Revenue = b.Store_Revenue + TargetImpact({"Revenue"}, Entities, n)
            /\ -r.Store_COGS = -b.Store_COGS + TargetImpact({"COGS"}, Entities, n)
            /\ -r.Store_Labor = -b.Store_Labor + TargetImpact({"Labor"}, Entities, n)
            /\ -r.Store_Ops_Ex
                   = -b.Store_Ops_Ex + TargetImpact({"Ops (Fixed)"}, {"Store", "Both"}, n)
            /\ -r.Store_Rent_Ex = -b.Store_Rent_Ex + TargetImpact({"Rent"}, Entities, n)
            /\ r.Store_NOI_Pre
                   = r.Store_Revenue
                     - ((-r.Store_COGS) + (-r.Store_Labor) + (-r.Store_Ops_Ex)
                        + (-r.Store_Rent_Ex))
            /\ r.Store_NOI_Pre
                   = r.Store_Revenue + r.Store_COGS + r.Store_Labor + r.Store_Ops_Ex
                     + r.Store_Rent_Ex

\* C16 witness: a revenue event and an event on a store expense line both
\* contributed a non-zero value to the newest row.
C16_Witness ==
    /\ RowBuilt
    /\ \E i, j \in 1..Len(self.events) :
           /\ self.events[i].impact_target = "Revenue"
           /\ Contribution(i) # 0
           /\ self.events[j].impact_target \in {"COGS", "Labor", "Ops (Fixed)", "Rent"}
           /\ self.events[j].affected_entity # "Property"
           /\ Contribution(j) # 0
           /\ LastRow.Store_NOI_Pre # BaseRow(Len(projection)).Store_NOI_Pre

\* C17  Property and owner consolidation: in every row Prop_Net is the
\* commercial rent (the store's rent expense) plus the residential rent
\* times the rent growth factor, minus the debt service, minus the Ops and
\* the Capex impacts of the Property; Owner_Cash_Flow is Store_Net plus
\* Prop_Net.
C17_PropertyConsolidation ==
    RowBuilt =>
        LET r == LastRow
            n == Len(self.events)
            y == (Len(projection) - 1) \div 12
            residential ==
                Div(self.residential_rent_income * Pow(100 + self.rent_escalation_rate, y),
                    Pow(100, y))
        IN  /\ r.Prop_Net
                   = ((-r.Store_Rent_Ex) + residential) - monthly_debt_service
                     - TargetImpact({"Ops (Fixed)"}, {"Property"}, n)
                     - TargetImpact({"Capex"}, {"Property"}, n)
            /\ -r.Prop_Debt = monthly_debt_service
            /\ r.Owner_Cash_Flow = r.Store_Net + r.Prop_Net

\* C17 witness: in the second year of a run with a debt service, an event
\* of the Property contributed to the newest row.
C17_Witness ==
    /\ RowBuilt
    /\ Len(projection) >= 13
    /\ monthly_debt_service > 0
    /\ self.residential_rent_income > 0
    /\ \E i \in 1..Len(self.events) :
           /\ self.events[i].impact_target \in {"Ops (Fixed)", "Capex"}
           /\ self.events[i].affected_entity = "Property"
           /\ Contribution(i) # 0

RECURSIVE SumField(_, _, _)
\* The sum of the field f over the rows 1..k of rows.
SumField(rows, f, k) ==
    IF k = 0 THEN 0 ELSE rows[k][f] + SumField(rows, f, k - 1)

\* The balance `cum` runs over the flow `flow` from the opening value: it is
\* the opening value plus the flows up to the newest row, and the newest row
\* adds its flow to the balance of the row before.
RunsFrom(opening, cum, flow) ==
    LET k == Len(projection)
    IN  /\ LastRow[cum] = opening + SumField(projection, flow, k)
        /\ k = 1 => LastRow[cum] = opening + LastRow[flow]
        /\ k >= 2 => LastRow[cum] = projection[k - 1][cum] + LastRow[flow]

\* C18 (as the claim states it): all three balances start from minus the
\* initial cost: Owner_Cum over Owner_Cash_Flow, and likewise Store_Cum over
\* Store_Net and Prop_Cum over Prop_Net.
C18_AllBalancesFromInitialCost ==
    RowBuilt =>
        /\ RunsFrom(-self.initial_capex, "Owner_Cum", "Owner_Cash_Flow")
        /\ RunsFrom(-self.initial_capex, "Store_Cum", "Store_Net")
        /\ RunsFrom(-self.initial_capex, "Prop_Cum", "Prop_Net")

\* C18 (amended)  Running cumulative cash: the initial cost is subtracted
\* once, from the owner's and from the store's balance: Owner_Cum runs over
\* Owner_Cash_Flow and Store_Cum over Store_Net from minus the initial cost,
\* Prop_Cum runs over Prop_Net from 0, and so Owner_Cum = Store_Cum +
\* Prop_Cum in every row.
C18_RunningCumulative ==
    RowBuilt =>
        /\ RunsFrom(-self.initial_capex, "Owner_Cum", "Owner_Cash_Flow")
        /\ RunsFrom(-self.initial_capex, "Store_Cum", "Store_Net")
        /\ RunsFrom(0, "Prop_Cum", "Prop_Net")
        /\ LastRow.Owner_Cum = LastRow.Store_Cum + LastRow.Prop_Cum

\* C18 witness: several months into a run with an initial cost, with a
\* store flow and a property flow that are not 0.
C18_Witness ==
    /\ RowBuilt
    /\ Len(projection) >= 3
    /\ self.initial_capex > 0
    /\ LastRow.Store_Net # 0
    /\ LastRow.Prop_Net # 0
    /\ LastRow.Owner_Cum # SumField(projection, "Owner_Cash_Flow", Len(projection))

--------------------------------------------------------------------------
(* The loan (checked under SpecLoan).                                      *)

\* C19  Constant debt service: while the loop runs and after it, the debt
\* service is the monthly payment of the loan of the model, and every row
\* built reports its negation in Prop_Debt: the same figure in every month,
\* with or without events, before and after the growth factors step and in
\* every quarter.
C19_ConstantDebtService ==
    LET payment == calculate_monthly_payment(self.loan_amount, self.interest_rate,
                                             self.amortization_years)
    IN  pc \in {"loop", "returned"} =>
            /\ monthly_debt_service = payment
            /\ \A j \in 1..Len(projection) :
                   /\ projection[j].Prop_Debt = -payment
                   /\ projection[j].Prop_Debt = projection[1].Prop_Debt

\* C19 witness: a run with a loan at interest and events has reached its
\* second year; the events contributed and the seasonality changed, and the
\* rows report a debt service that is not 0.
C19_Witness ==
    /\ RowBuilt
    /\ Len(projection) >= 13
    /\ self.interest_rate > 0
    /\ Len(self.events) >= 1
    /\ LastRow.Net_Event_Impact # 0
    /\ projection[1].Quarter # projection[4].Quarter
    /\ projection[1].Store_Revenue # projection[4].Store_Revenue
    /\ LastRow.Prop_Debt < 0

RECURSIVE Balance(_, _, _, _)
\* What is left of the principal after n months in which the balance grows
\* by the monthly rate r (a whole number) and the payment is made.
Balance(principal, r, payment, n) ==
    IF n = 0 THEN principal
    ELSE Balance(principal, r, payment, n - 1) * (1 + r) - payment

\* C20  Monthly payment branches: the payment computed at entry is 0 when
\* the principal is <= 0, whatever the rate; the straight-line amount
\* principal / (years * 12) when the principal is > 0 and the rate <= 0
\* (120000 at 0% over 10 years: 1000); otherwise the level payment
\* P * r(1+r)^n / ((1+r)^n - 1) with r = rate/100/12 and n = years * 12,
\* which is the payment that brings the balance to 0 in n months.
C20_PaymentBranches ==
    pc \in {"loop", "returned"} =>
        LET P == self.loan_amount
            n == self.amortization_years * 12
            payment == monthly_debt_service
        IN  /\ P <= 0 => payment = 0
            /\ (P > 0 /\ self.interest_rate <= 0) => payment * n = P
            /\ (P > 0 /\ self.interest_rate > 0 /\ self.interest_rate % 1200 = 0) =>
                   LET r == self.interest_rate \div 1200
                   IN  /\ payment * (Pow(1 + r, n) - 1) = P * r * Pow(1 + r, n)
                       /\ Balance(P, r, payment, n) = 0
            /\ (P = 120000 /\ self.interest_rate = 0 /\ self.amortization_years = 10)
                   => payment = 1000

\* C20 witness: a call was entered with a loan at interest, and its payment
\* is above the straight-line amount.
C20_Witness ==
    /\ pc = "loop"
    /\ self.loan_amount > 0
    /\ self.interest_rate > 0
    /\ monthly_debt_service * self.amortization_years * 12 > self.loan_amount

--------------------------------------------------------------------------
(* The remaining loan balance and the equity of the property.  model.py    *)
(* as given computes neither (its rows end with Store_NOI_Pre and the      *)
(* event columns); its tests (test_property_metrics) and the dashboard     *)
(* read Loan_Balance and Property_Equity.  The two definitions below are   *)
(* written from the specification (section 4.1, the roll-forward).         *)

\* LoanBalance with the whole payment taken off the balance (no interest).
LoanBalance_PaymentOnly(principal, r, payment, k) == principal - k * payment

RECURSIVE LoanBalance(_, _, _, _)
\* The balance after k months: each month interest = balance * r, principal
\* portion = payment - interest, balance -= principal portion.  r is the
\* monthly rate, a whole number.
LoanBalance(principal, r, payment, k) ==
    IF k = 0 THEN principal
    ELSE LET balance == LoanBalance(principal, r, payment, k - 1)
             interest == balance * r
             principal_portion == payment - interest
         IN  balance - principal_portion

\* Property_Equity: the value of the property less the remaining balance.
PropertyEquity(property_value, balance) == property_value - balance

\* The loan of the model has a principal >= 0 and a monthly rate that is a
\* whole number (0%, or 1200% a year).
WholeMonthlyRate ==
    /\ self.loan_amount >= 0
    /\ self.interest_rate >= 0
    /\ self.interest_rate % 1200 = 0

--------------------------------------------------------------------------
(* Labor (checked under SpecCalendar).                                     *)

\* The manager's hours of a month: manager_weekly_hours * 52 / 12.
ManagerHours == (self.manager_weekly_hours * 52) \div 12

\* Twice the hours of the hourly staff: avg_staff * operating_hours * 30.5
\* less the manager's hours, and 0 when that is negative.
StaffHours_x2 ==
    IF self.avg_staff * self.operating_hours * 61 - 2 * ManagerHours > 0
    THEN self.avg_staff * self.operating_hours * 61 - 2 * ManagerHours
    ELSE 0

\* A wage in ownership year y + 1: wage * (1 + wage_growth_rate/100)^y.
WageIn(wage, y) == (wage * Pow(100 + self.wage_growth_rate, y)) \div Pow(100, y)

\* C22  Labor composition: the base labor of month k is the manager cost
\* (wage * wage growth * weekly hours * 52/12, the same in every quarter)
\* plus the hourly-staff cost (wage * wage growth * staff hours) times the
\* labor factor 1 + (seasonality - 1) * 0.5 = (1 + seasonality) / 2; the
\* staff hours are never negative: when the manager's hours exceed the
\* required hours the labor is the manager cost alone.
C22_LaborComposition ==
    RowBuilt =>
        LET k == Len(projection)
            y == (k - 1) \div 12
            seasonality_factor == self.seasonality[LastRow.Quarter]
            labor == -BaseRow(k).Store_Labor
            manager_cost == WageIn(self.manager_wage_hourly, y) * ManagerHours
        IN  /\ 400 * labor
                   = 400 * manager_cost
                     + WageIn(self.hourly_wage, y) * StaffHours_x2 * (100 + seasonality_factor)
            /\ labor >= manager_cost
            /\ (2 * ManagerHours >= self.avg_staff * self.operating_hours * 61)
                   => labor = manager_cost

\* C22 witness: in the second year, in a quarter with a seasonality factor
\* other than 1, the manager's hours exceed the required hours and the labor
\* of the row is the manager cost.
C22_Witness ==
    /\ RowBuilt
    /\ Len(projection) >= 13
    /\ 2 * ManagerHours > self.avg_staff * self.operating_hours * 61
    /\ self.seasonality[LastRow.Quarter] # 100
    /\ self.hourly_wage > 0
    /\ -BaseRow(Len(projection)).Store_Labor
           = WageIn(self.manager_wage_hourly, 1) * ManagerHours

--------------------------------------------------------------------------
(* The event columns (checked under SpecEvents).                           *)

\* The newest row as the same iteration computes it, from the same history,
\* when the event list is events.
LastRowWith(events) ==
    LET k == Len(projection)
        cum == IF k = 1
               THEN [ owner |-> -initial_capex_cost, store |-> -initial_capex_cost,
                      prop |-> 0 ]
               ELSE [ owner |-> projection[k - 1].Owner_Cum,
                      store |-> projection[k - 1].Store_Cum,
                      prop |-> projection[k - 1].Prop_Cum ]
    IN  RowData([self EXCEPT !.events = events], start_date, k,
                History, monthly_debt_service, initial_capex_cost, cum)

\* The distinct names of the event list.
EventNames == { self.events[i].name : i \in 1..Len(self.events) }

RECURSIVE ValuesOfName(_, _)
\* The sum, over the events of that name among the first n, of the value
\* each has in the newest month when it is the only event of the list.
ValuesOfName(name, n) ==
    IF n = 0 THEN 0
    ELSE ValuesOfName(name, n - 1)
         + (IF self.events[n].name = name
            THEN Column(LastRowWith(<<self.events[n]>>), name)
            ELSE 0)

\* C23  Event column schema: every row has exactly one event column per
\* distinct event name of the list, in every month; the column is 0 in a
\* month where no event of the name applies (inactive events included), and
\* events sharing a name share one column that holds the sum of their values
\* of the month.
C23_EventColumnSchema ==
    pc \in {"loop", "returned"} =>
        /\ \A k \in 1..Len(projection) :
               /\ DOMAIN projection[k].Event = EventNames
               /\ \A name \in EventNames :
                      (\A i \in 1..Len(self.events) :
                           self.events[i].name = name => ~Applicable(self.events[i], k))
                      => projection[k].Event[name] = 0
        /\ Len(projection) >= 1 =>
               \A name \in EventNames :
                   LastRow.Event[name] = ValuesOfName(name, Len(self.events))

\* C23 witness: two events share a name, both apply in the newest month with
\* different non-zero values, and the one column holds their sum; an earlier
\* row, where one of them did not apply, has the same columns.
C23_Witness ==
    /\ RowBuilt
    /\ Len(projection) >= 2
    /\ \E i, j \in 1..Len(self.events) :
           LET a == self.events[i]
               b == self.events[j]
           IN  /\ i # j /\ a.name = b.name
               /\ Applicable(a, Len(projection)) /\ Applicable(b, Len(projection))
               /\ ~Applicable(b, 1)
               /\ a.value # b.value /\ a.value # 0 /\ b.value # 0
               /\ LastRow.Event[a.name] = a.value + b.value
               /\ DOMAIN projection[1].Event = {a.name}
               /\ projection[1].Event[a.name] = a.value

--------------------------------------------------------------------------
(* Termination (checked under SpecTermination).                            *)

\* The rows are those of the months 1, 2, ..., n in that order.
MonthsInOrder(df, n) ==
    /\ Len(df) = n
    /\ \A k \in 1..n : df[k].Project_Month = k

\* C24  Termination and row count: for any N >= 0 a call with months = N
\* returns, and it returns exactly N rows whose Project_Month values are
\* 1, 2, ..., N in that order, whatever the events are; while it runs, the
\* rows built so far are those of the months before m.
C24_TerminatesWithNRows ==
    /\ <>(pc = "returned")
    /\ [](pc = "returned" =>
              /\ MonthsInOrder(projection, months)
              /\ Len(runs) = 1 /\ runs[1].df = projection)
    /\ [](pc = "loop" => MonthsInOrder(projection, m - 1) /\ m <= months + 1)

\* C24 witness: a call over MaxMonths months with two events, one of them
\* a one-time event, has returned all its rows.
C24_Witness ==
    /\ pc = "returned"
    /\ months = MaxMonths
    /\ Len(projection) = MaxMonths
    /\ projection[MaxMonths].Project_Month = MaxMonths
    /\ Len(self.events) = 2
    /\ \E i \in 1..2 : self.events[i].frequency = "One-time"

--------------------------------------------------------------------------
(* Invalid configurations (checked under SpecInvalid).                     *)

\* C25  Non-crashing on invalid configuration: with configuration values
\* that were not rejected upstream (zero or negative amortization years with
\* a positive loan, a seasonality list of fewer than 4 entries) the call
\* never raises: whenever it has stopped it has returned all its rows.
C25_NeverRaises ==
    /\ pc # "raised"
    /\ pc = "returned" => Len(projection) = months

--------------------------------------------------------------------------
(* What the event fields of a row report (checked under Spec).             *)

\* The total of the eight accumulators of the event loop.
TotalImpacts(acc) ==
    acc.event_rev_impact + acc.event_cogs_impact + acc.event_labor_impact
    + acc.event_ops_impact + acc.event_prop_ops_impact + acc.event_rent_impact
    + acc.event_capex_store + acc.event_capex_prop

\* What the i-th event added to the accumulators in the newest month: their
\* total after the event loop over the list, less that over the list without
\* the event.
AppliedAmount(i) ==
    LET k == Len(projection)
        base == BaseFigures(self, start_date, k)
        without == RemoveAt(self.events, i)
    IN  TotalImpacts(EventLoop(self.events, Len(self.events), k, base, History))
        - TotalImpacts(EventLoop(without, Len(without), k, base, History))

\* C26  Event column equals applied contribution: in every row the value an
\* event puts in its column is the amount it added to a ledger accumulator
\* in that month; an event that reaches no accumulator shows 0.
C26_ColumnIsApplied ==
    RowBuilt =>
        \A i \in 1..Len(self.events) : Contribution(i) = AppliedAmount(i)

\* The event is sized on the NOI of earlier rows.
HasNoiBasis(e) == e.value_type # "Fixed Amount ($)" /\ BasisToUse(e) = "NOI"

\* C27  Net_Event_Impact is the cash effect of the events: when no event of
\* the run has an NOI basis, each row's Net_Event_Impact is the row's
\* Owner_Cash_Flow less the Owner_Cash_Flow of the same month of the run
\* with an empty event list, Rent-targeted events included.
C27_NetImpactIsCashEffect ==
    (/\ Len(runs) = 2
     /\ runs[2].events = <<>>
     /\ \A i \in 1..Len(runs[1].events) : ~HasNoiBasis(runs[1].events[i]))
    => \A k \in 1..Len(runs[1].df) :
           runs[1].df[k].Net_Event_Impact
               = runs[1].df[k].Owner_Cash_Flow - runs[2].df[k].Owner_Cash_Flow

RECURSIVE CapexImpact(_)
\* The sum of the contributions to the newest row of the first n events that
\* target Capex, the store's and the property's.
CapexImpact(n) ==
    IF n = 0 THEN 0
    ELSE CapexImpact(n - 1)
         + (IF self.events[n].impact_target = "Capex" THEN Contribution(n) ELSE 0)

\* C28  Capex column completeness: the Capex field of row m is minus the
\* Capex event impact of month m, store and property, and in month 1 minus
\* the initial capex plus the Capex event impact of month 1.
C28_CapexComplete ==
    RowBuilt =>
        -LastRow.Capex
            = (IF Len(projection) = 1 THEN initial_capex_cost ELSE 0)
              + CapexImpact(Len(self.events))

--------------------------------------------------------------------------
(* The basis of a percentage event (checked under SpecEvents).             *)

\* The basis a value_type string names, read off the string: the first of
\* Revenue, COGS, Ops, NOI, Previous Quarter that occurs in it; the field
\* pct_basis when the string is "Percentage (%)" or names none of them.
NamedBasis(e) ==
    CASE e.value_type = "Percentage (%)" -> e.pct_basis
      [] e.value_type = "% of Revenue" -> "Revenue"
      [] e.value_type = "% of COGS and Revenue" -> "Revenue"
      [] e.value_type = "% of COGS" -> "COGS"
      [] e.value_type = "Percent of COGS" -> "COGS"
      [] e.value_type = "% of Ops" -> "Ops (Fixed)"
      [] e.value_type = "% of NOI" -> "NOI"
      [] e.value_type = "% of Previous Quarter NOI" -> "NOI"
      [] e.value_type = "% of Previous Quarter" -> "NOI"
      [] e.value_type = "Percent of Labor" -> e.pct_basis

\* C29  Basis selection: a percentage event that applies is sized on the
\* basis its pct_basis names when value_type is exactly "Percentage (%)",
\* and on the basis a legacy value_type string names (the first of Revenue,
\* COGS, Ops, NOI, Previous Quarter in it) whatever pct_basis says; a basis
\* that is none of the recognised values gives the value 0.
C29_BasisSelection ==
    RowBuilt =>
        \A i \in 1..Len(self.events) :
            LET e == self.events[i]
                k == Len(projection)
                b == NamedBasis(e)
                v == Contribution(i)
            IN  (Applicable(e, k) /\ e.value_type # "Fixed Amount ($)")
                => CASE b \in PlainBases -> 100 * v = e.value * BaseFigure(b, k)
                     [] b = "NOI" ->
                            IF k > LookbackWindow(e) /\ TrailingNOI(e, k) > 0
                            THEN 100 * v = e.value * TrailingNOI(e, k)
                            ELSE v = 0
                     [] OTHER -> v = 0

\* C29 witness: in one row, an event with a legacy string is sized on the
\* basis the string names and not on the one its pct_basis names, and an
\* active event with an unknown pct_basis and a non-zero value has the
\* value 0.
C29_Witness ==
    /\ RowBuilt
    /\ \E i, j \in 1..Len(self.events) :
           LET e == self.events[i]
               u == self.events[j]
               k == Len(projection)
           IN  /\ e.value_type \notin {"Percentage (%)", "Fixed Amount ($)"}
               /\ NamedBasis(e) = "Revenue" /\ e.pct_basis = "Labor"
               /\ Applicable(e, k)
               /\ 100 * Contribution(i) = e.value * BaseFigure("Revenue", k)
               /\ 100 * Contribution(i) # e.value * BaseFigure("Labor", k)
               /\ u.value_type = "Percentage (%)"
               /\ u.pct_basis \notin PlainBases \cup {"NOI"}
               /\ Applicable(u, k) /\ u.value # 0
               /\ Contribution(j) = 0

--------------------------------------------------------------------------
(* The event manager (checked under SpecEditor).                           *)

\* C30  Event editor index validity: after any sequence of add, select,
\* update, cancel, toggle and delete, edit_event_idx is None or an index
\* inside events_data at which the event the user selected still stands, and
\* Update has not raised.
C30_EditIndexValid ==
    /\ pc # "raised"
    /\ \/ session_state.edit_event_idx = None
       \/ /\ session_state.edit_event_idx \in 0..(Len(session_state.events_data) - 1)
          /\ session_state.events_data[session_state.edit_event_idx + 1].name = selected

==========================================================================
